---- MODULE Spec2Model ----
(***************************************************************************)
(* Conversation routing and rule evaluation of the Aquaservice agent:      *)
(*   api/rule_engine.py   RuleEngine (evaluate, _matches, _to_number,      *)
(*                        get_missing_info)                                *)
(*   api/agent_system.py  AgentSystem (process_request, _analyze_turn,     *)
(*                        _classify_intent, the two flow handlers)         *)
(*   api/index.py         chat endpoint and the widget's session state     *)
(*                        (userContext, flowStep, syncContext)             *)
(*                                                                         *)
(* Python values are tagged records; Python's None for an optional result  *)
(* is the empty sequence and a present result x is <<x>>.  Strings that    *)
(* the code parses are sequences of one-character strings.                 *)
(***************************************************************************)
EXTENDS Integers, Sequences, FiniteSets, TLC

VARIABLES
    eng,          \* harness: a constructed RuleEngine
    ctx,          \* harness: the context dict handed to the engine
    ret,          \* harness: the last engine call and what it returned
    stop_engine,  \* AgentSystem.stop_engine
    urgent_engine,\* AgentSystem.urgent_engine
    userContext,  \* widget: the caller's fact context
    flowStep,     \* widget: the caller's flow marker
    turn,         \* trace of the last /api/chat round trip
    lastFlowResponse, \* history: the most recent response made by a flow handler
    other,        \* trace of the /api/chat round trip of a second session
    disk,         \* the two rule-set files as they are on disk
    sync,         \* rag_sync: the sources, the index, the sync state and the running sync
    chunker       \* rag_sync: a call of Processor.chunk_text

vars == <<eng, ctx, ret, stop_engine, urgent_engine, userContext, flowStep, turn,
          lastFlowResponse, other, disk, sync, chunker>>

(***************************************************************************)
(* Bounds of the model                                                     *)
(***************************************************************************)
MaxRules == 2
MaxPriority == 1
MaxLen == 3

(***************************************************************************)
(* Python values                                                           *)
(***************************************************************************)
None == <<>>
Some(x) == <<x>>

Null == [t |-> "null", s |-> <<>>, n |-> 0, d |-> 1]
Str(cs) == [t |-> "str", s |-> cs, n |-> 0, d |-> 1]
Num(k) == [t |-> "num", s |-> <<>>, n |-> k, d |-> 1]
Frac(k, den) == [t |-> "num", s |-> <<>>, n |-> k, d |-> den]
Bool(b) == [t |-> "bool", s |-> <<>>, n |-> IF b THEN 1 ELSE 0, d |-> 1]

EmptyStr == Str(<<>>)
EmptyDict == [f \in {} |-> Null]

\* bool(x) of a value: None, "", 0 and False are falsy
Truthy(v) ==
    CASE v.t = "null" -> FALSE
      [] v.t = "str" -> v.s # <<>>
      [] OTHER -> v.n # 0

\* a == b of two scalars: bool is a subclass of int, so True == 1 and False == 0;
\* a str never equals a number
PyEq(a, b) ==
    \/ a.t \in {"num", "bool"} /\ b.t \in {"num", "bool"} /\ a.n * b.d = b.n * a.d
    \/ a.t = "str" /\ b.t = "str" /\ a.s = b.s
    \/ a.t = "null" /\ b.t = "null"

\* dict.get(key): the value, or None
Get(dict, key) == IF key \in DOMAIN dict THEN dict[key] ELSE Null

\* dict[key] = value
PutNothing(dict, key, value) == dict

Put(dict, key, value) == [k \in DOMAIN dict \cup {key} |-> IF k = key THEN value ELSE dict[k]]

(***************************************************************************)
(* RuleEngine._to_number                                                   *)
(***************************************************************************)
DigitVal ==
    [c \in {"0", "1", "2", "3", "4", "5", "6", "7", "8", "9"} |->
        CASE c = "0" -> 0 [] c = "1" -> 1 [] c = "2" -> 2 [] c = "3" -> 3 [] c = "4" -> 4
          [] c = "5" -> 5 [] c = "6" -> 6 [] c = "7" -> 7 [] c = "8" -> 8 [] c = "9" -> 9]

IsDigit(c) == c \in DOMAIN DigitVal

\* the last index of the run of digits that starts at i (i - 1 when s[i] is no digit)
DigitRunEnd(s, i) ==
    CHOOSE j \in (i - 1)..Len(s) :
        /\ \A k \in i..j : IsDigit(s[k])
        /\ j = Len(s) \/ ~IsDigit(s[j + 1])

RECURSIVE DigitsValue(_, _, _)
DigitsValue(s, a, b) ==
    IF b < a THEN 0 ELSE 10 * DigitsValue(s, a, b - 1) + DigitVal[s[b]]

RECURSIVE Pow10(_)
Pow10(k) == IF k = 0 THEN 1 ELSE 10 * Pow10(k - 1)

\* whether -?\d+(\.\d+)? matches at position i
NumberAt(s, i) ==
    IF s[i] = "-" THEN i + 1 <= Len(s) /\ IsDigit(s[i + 1]) ELSE IsDigit(s[i])

\* float() of sign, integer digits and fraction digits, as the fraction n / d
MakeNumber(neg, int, frac, fd) ==
    [n |-> (IF neg THEN 0 - 1 ELSE 1) * (int * Pow10(fd) + frac), d |-> Pow10(fd)]

\* the match whose integer digits are s[p..e]: (\.\d+)? takes part only when a
\* digit follows the point
NumberParts(s, neg, p, e) ==
    IF e + 2 <= Len(s) /\ s[e + 1] = "." /\ IsDigit(s[e + 2])
    THEN MakeNumber(neg, DigitsValue(s, p, e), DigitsValue(s, e + 2, DigitRunEnd(s, e + 2)),
                    DigitRunEnd(s, e + 2) - (e + 1))
    ELSE MakeNumber(neg, DigitsValue(s, p, e), 0, 0)

NumberFrom(s, neg, p) == NumberParts(s, neg, p, DigitRunEnd(s, p))

\* float(match.group(1)) for the match that starts at i
NumberValueAt(s, i) == NumberFrom(s, s[i] = "-", IF s[i] = "-" THEN i + 1 ELSE i)

\* the start of the leftmost match, 0 when there is none
FirstNumberStart(s) ==
    IF \E i \in 1..Len(s) : NumberAt(s, i)
    THEN CHOOSE i \in 1..Len(s) : NumberAt(s, i) /\ \A k \in 1..(i - 1) : ~NumberAt(s, k)
    ELSE 0

NumberIn(s, start) == IF start = 0 THEN None ELSE Some(NumberValueAt(s, start))

\* re.search(r'(-?\d+(\.\d+)?)', val): the leftmost match
_to_number(val) ==
    CASE val.t \in {"num", "bool"} -> Some([n |-> val.n, d |-> val.d])
      [] val.t = "str" -> NumberIn(val.s, FirstNumberStart(val.s))
      [] OTHER -> None

NumGE(a, b) == a.n * b.d >= b.n * a.d

\* a strict upper bound
NumLT(a, b) == a.n * b.d < b.n * a.d

NumLE(a, b) == a.n * b.d <= b.n * a.d

(***************************************************************************)
(* RuleEngine                                                              *)
(***************************************************************************)
\* a condition of a rule's 'when': a scalar (exact match) or a dict with min / max
Exact(v) == [kind |-> "exact", value |-> v, min |-> None, max |-> None]
Range(lo, hi) == [kind |-> "range", value |-> Null, min |-> lo, max |-> hi]

Rule(when, then, priority) == [when |-> when, then |-> then, priority |-> priority]

\* x.get('priority', 0)
PriorityKey(rule) == IF rule.priority = None THEN 0 ELSE rule.priority[1]

\* sorted(rules, key=priority, reverse=True): stable, equal keys keep their order
\* r put after the k first elements of rest
InsertAfter(rest, k, r) == SubSeq(rest, 1, k) \o <<r>> \o SubSeq(rest, k + 1, Len(rest))

InsertByPriorityAsc(rest, r) ==
    InsertAfter(rest, Cardinality({i \in 1..Len(rest) : PriorityKey(rest[i]) <= PriorityKey(r)}), r)

\* an unstable sort: r goes before the elements of equal priority
InsertBeforeEquals(rest, r) ==
    InsertAfter(rest, Cardinality({i \in 1..Len(rest) : PriorityKey(rest[i]) > PriorityKey(r)}), r)

InsertByPriority(rest, r) ==
    InsertAfter(rest, Cardinality({i \in 1..Len(rest) : PriorityKey(rest[i]) >= PriorityKey(r)}), r)

RECURSIVE SortedByPriorityAsc(_)
SortedByPriorityAsc(rules) ==
    IF rules = <<>> THEN <<>>
    ELSE InsertByPriorityAsc(SortedByPriorityAsc(SubSeq(rules, 1, Len(rules) - 1)), rules[Len(rules)])

RECURSIVE SortedByPriority(_)
SortedByPriority(rules) ==
    IF rules = <<>> THEN <<>>
    ELSE InsertByPriority(SortedByPriority(SubSeq(rules, 1, Len(rules) - 1)), rules[Len(rules)])

\* RuleEngine.__init__: data is the parsed rule-set file
RuleEngine(data) ==
    [data |-> data, rules |-> SortedByPriority(data.rules), process_name |-> data.process]

\* a declared bound holds of the number, and there is a number
RangeHolds(condition, val_num) ==
    /\ condition.min # None => val_num # None /\ NumGE(val_num[1], condition.min[1])
    /\ condition.max # None => val_num # None /\ NumLE(val_num[1], condition.max[1])

ConditionHolds(condition, value) ==
    /\ value # Null
    /\ IF condition.kind = "range"
       THEN RangeHolds(condition, _to_number(value))
       ELSE PyEq(value, condition.value)

\* a disjunction over the listed fields
_matchesSome(conditions, context) ==
    \E field \in DOMAIN conditions : ConditionHolds(conditions[field], Get(context, field))

_matches(conditions, context) ==
    \A field \in DOMAIN conditions : ConditionHolds(conditions[field], Get(context, field))

\* the 'then' of the first rule of the list among the matching ones
ThenOfFirst(rules, hits) ==
    IF hits = {} THEN None
    ELSE Some(rules[CHOOSE i \in hits : \A k \in hits : i <= k].then)

evaluate(self, context) ==
    ThenOfFirst(self.rules, {i \in 1..Len(self.rules) : _matches(self.rules[i].when, context)})

DefaultQuestion(field) == "Please provide " \o field

IsMissingFalsy(context, field) == ~Truthy(Get(context, field))

IsMissing(context, field) ==
    field \notin DOMAIN context \/ context[field] = Null \/ context[field] = EmptyStr

LastMissing(missing) == missing[Len(missing)]

FirstMissing(missing) == missing[1]

NeedInfo(f, questions) ==
    [status |-> "NEED_INFO",
     missing_field |-> f,
     question |-> IF f \in DOMAIN questions THEN questions[f].question ELSE DefaultQuestion(f),
     options |-> IF f \in DOMAIN questions THEN questions[f].options ELSE None]

MissingInfo(self, missing) ==
    IF missing # <<>> THEN Some(NeedInfo(FirstMissing(missing), self.data.questions)) ELSE None

get_missing_info(self, context) ==
    MissingInfo(self, SelectSeq(self.data.required_fields, LAMBDA field : IsMissing(context, field)))

\* what a call leaves in self: evaluate and get_missing_info only read self.rules and
\* self.data, and _matches and _to_number assign to no attribute
EngineAfterCallConsumed(self) ==
    [self EXCEPT !.rules = IF @ = <<>> THEN <<>> ELSE Tail(@)]

EngineAfterCall(self) == self

\* what a call leaves in the context argument: it is read with .get and `in` only
ContextAfterCall(context) == context

\* a rule-set file's records
Decision(label, i) == [decision |-> label, id |-> i]
QuestionDef(text, options) == [question |-> text, options |-> options]

\* harness: no engine call made yet
NoCall == [op |-> "none", value |-> None]

(***************************************************************************)
(* Labels.  Intent and flow-marker strings are kept as the sequence of     *)
(* their '_'-separated parts, so that split('_'), startswith and the       *)
(* substring tests of process_request read the same text the code reads.   *)
(***************************************************************************)
STOP_DELIVERY == <<"STOP", "DELIVERY">>
URGENT_NOTICE == <<"URGENT", "NOTICE">>
FAQ == <<"FAQ">>
CHAT == <<"CHAT">>
ANSWER_FLOW == <<"ANSWER", "FLOW">>
INTERRUPTION == <<"INTERRUPTION">>
NEW_INTENT == <<"NEW", "INTENT">>
OTHER_LABEL == <<"OTHER">>

\* sub in label, for a part-sized sub: none of the parts used contains another
HasPart(label, sub) == \E i \in 1..Len(label) : label[i] = sub

\* label.startswith(part + "_")
StartsWithPart(label, part) == Len(label) >= 2 /\ label[1] = part

(***************************************************************************)
(* Results of calls that may raise                                         *)
(***************************************************************************)
Return(v) == [exc |-> FALSE, val |-> v]
Raise == [exc |-> TRUE, val |-> None]

(***************************************************************************)
(* AgentSystem._classify_intent                                            *)
(* llm: the completion call; ok = FALSE when generate_content or res.text  *)
(* raises, marks = which of STOP / URGENT / FAQ the upper-cased text holds *)
(***************************************************************************)
\* the reply handed on as it is when it names no category
_classify_intentUnmapped(llm) ==
    IF ~llm.ok THEN Raise
    ELSE Return(CASE "STOP" \in llm.marks -> STOP_DELIVERY
                  [] "URGENT" \in llm.marks -> URGENT_NOTICE
                  [] "FAQ" \in llm.marks -> FAQ
                  [] OTHER -> OTHER_LABEL)

_classify_intent(llm) ==
    IF ~llm.ok THEN Raise
    ELSE Return(CASE "STOP" \in llm.marks -> STOP_DELIVERY
                  [] "URGENT" \in llm.marks -> URGENT_NOTICE
                  [] "FAQ" \in llm.marks -> FAQ
                  [] OTHER -> CHAT)

(***************************************************************************)
(* AgentSystem._analyze_turn                                               *)
(* cls: the in-flow classifier call; status CALL_ERROR (generate_content   *)
(* raises), NON_JSON (json.loads raises) or JSON with the parsed keys      *)
(* (None = key absent).  keyword: the message holds a fallback keyword.    *)
(***************************************************************************)
Analysis(intent, is_interruption) == [intent |-> intent, is_interruption |-> is_interruption]

\* the try block of _analyze_turn: the analysis, or Raise for what except catches
TryClassifier(cls) ==
    IF cls.status # "JSON" \/ cls.classification = None THEN Raise
    ELSE IF cls.classification[1] = ANSWER_FLOW THEN Return(Analysis(ANSWER_FLOW, FALSE))
    ELSE IF cls.detected_intent = None THEN Raise
    ELSE IF cls.classification[1] = INTERRUPTION
         THEN Return(Analysis(cls.detected_intent[1], TRUE))
         ELSE Return(Analysis(cls.detected_intent[1], FALSE))

\* the no-flow branch, given what _classify_intent returned
AnalyzedNoFlow(intent) ==
    IF intent.exc THEN Raise ELSE Return(Analysis(intent.val, FALSE))

\* the end of the except block, given what _classify_intent returned
AnalyzedFallbackInterrupts(intent) ==
    IF intent.exc THEN Raise ELSE Return(Analysis(intent.val, TRUE))

AnalyzedFallback(intent) ==
    IF intent.exc THEN Raise ELSE Return(Analysis(intent.val, intent.val # CHAT))

\* the in-flow branch, given what the try block gave
AnalyzedInFlow(tried, message, o) ==
    IF ~tried.exc THEN tried
    ELSE IF message.keyword THEN Return(Analysis(ANSWER_FLOW, FALSE))
    ELSE AnalyzedFallback(_classify_intent(o.intent_llm))

_analyze_turn(message, current_flow_step, o) ==
    IF current_flow_step = None
    THEN AnalyzedNoFlow(_classify_intent(o.intent_llm))
    ELSE AnalyzedInFlow(TryClassifier(o.cls), message, o)

(***************************************************************************)
(* Responses                                                               *)
(***************************************************************************)
Debug(kind, field, decision) == [kind |-> kind, field |-> field, decision |-> decision]
NoDebug == Debug("none", "", None)

Response(answer, context_updates, flow_step, source, debug_info) ==
    [answer |-> answer, context_updates |-> context_updates, flow_step |-> flow_step,
     source |-> source, debug_info |-> debug_info]

RESUME_HINT == "(Por cierto, seguimos pendientes de tu gestion anterior. Deseas continuar?)"
STOP_FALLBACK == "No he podido determinar una accion automatica para tu caso."
URGENT_FALLBACK == "No podemos procesar el aviso urgente con los datos actuales."

\* what a handler hands back: the response or an exception, the request's context
\* dict as the handler left it, the calls it made, and the value it extracted
Handled(response, context, calls, extracted) ==
    [exc |-> FALSE, response |-> response, context |-> context, calls |-> calls,
     extracted |-> extracted]
Failed(context, calls, extracted) ==
    [exc |-> TRUE, response |-> Response(<<>>, EmptyDict, None, "", NoDebug),
     context |-> context, calls |-> calls, extracted |-> extracted]

Extraction(process, field, value) == [process |-> process, field |-> field, value |-> value]

(***************************************************************************)
(* AgentSystem._extract_field                                              *)
(* llm.kind: ERROR (the call raises), NULL (the text holds NULL), EMPTY,   *)
(* QUOTES (only quote characters), TEXT (llm.s, quotes removed)            *)
(***************************************************************************)
_extract_field(llm) ==
    CASE llm.kind = "ERROR" -> Raise
      [] llm.kind \in {"NULL", "EMPTY"} -> Return(Null)
      [] llm.kind = "QUOTES" -> Return(EmptyStr)
      [] OTHER -> Return(Str(llm.s))

(***************************************************************************)
(* AgentSystem._handle_rag, _simple_chat                                   *)
(***************************************************************************)
_handle_rag(context, o) ==
    IF ~o.gen_ok THEN Failed(context, {"_handle_rag"}, None)
    ELSE Handled(Response(<<"RAG_ANSWER">>, EmptyDict, None, "RAG", Debug("context_used", "", None)),
                 context, {"_handle_rag"}, None)

_simple_chat(o) == IF ~o.gen_ok THEN Raise ELSE Return(<<"CHAT_ANSWER">>)

(***************************************************************************)
(* AgentSystem._handle_stop_delivery                                       *)
(***************************************************************************)
\* "flow_step": None of a decision response
DecisionFlowStepKept(process) == Some(process)

DecisionFlowStep(process) == None

\* "debug_info": decision of a decision response
DecisionDebugDropped(decision) == Debug("decision", "", None)

DecisionDebug(decision) == Debug("decision", "", decision)

\* "flow_step": None of a no-rule-matched response
FallbackFlowStepKept(process) == Some(process)

FallbackFlowStep(process) == None

\* the response to what evaluate returned: the decision text or the fallback
Decided(decision, process, source, fallback, context, o, calls, extracted) ==
    IF decision # None
    THEN IF ~o.gen_ok
         THEN Failed(context, calls \cup {"evaluate", "_generate_decision_response"}, extracted)
         ELSE Handled(Response(<<"DECISION_TEXT">>, context, DecisionFlowStep(process),
                               source, DecisionDebug(decision)),
                      context, calls \cup {"evaluate", "_generate_decision_response"}, extracted)
    ELSE Handled(Response(<<fallback>>, EmptyDict, FallbackFlowStep(process), source,
                          Debug("error", "No rule matched", None)),
                 context, calls \cup {"evaluate"}, extracted)

\* "2. Evaluate Rules", once nothing is missing
Decide(engine, process, source, fallback, context, o, calls, extracted) ==
    Decided(evaluate(engine, context), process, source, fallback, context, o, calls, extracted)

\* the updates of a re-asked question that hand nothing to the caller
CollectedNothing(field, extracted) == EmptyDict

\* "context_updates": {missing['missing_field']: extracted}
Collected(field, extracted) == [k \in {field} |-> extracted]

StopCalls == {"_handle_stop_delivery", "get_missing_info", "_extract_field"}

\* after context[missing_field] = extracted and the second get_missing_info
StopRechecked(f, extracted, context, missing, o) ==
    IF missing # None
    THEN Handled(Response(<<"Gracias. ", missing[1].question>>,
                          Collected(missing[1].missing_field, extracted),
                          Some(STOP_DELIVERY), "AGENT_STOP",
                          Debug("collecting", missing[1].missing_field, None)),
                 context, StopCalls, Some(Extraction(STOP_DELIVERY, f, extracted)))
    ELSE Decide(stop_engine, STOP_DELIVERY, "AGENT_STOP", STOP_FALLBACK, context, o,
                StopCalls, Some(Extraction(STOP_DELIVERY, f, extracted)))

\* the extracted value merged without the second get_missing_info
StopMergedUnchecked(f, extracted, context, o) ==
    StopRechecked(f, extracted, context, None, o)

StopMerged(f, extracted, context, o) ==
    StopRechecked(f, extracted, context, get_missing_info(stop_engine, context), o)

\* after _extract_field, for the missing field reported first
StopExtracted(missing, got, context, o) ==
    IF got.exc THEN Failed(context, StopCalls, None)
    ELSE IF Truthy(got.val)
    THEN StopMerged(missing.missing_field, got.val,
                    Put(context, missing.missing_field, got.val), o)
    ELSE Handled(Response(<<missing.question>>, context, Some(STOP_DELIVERY), "AGENT_STOP",
                          Debug("collecting", missing.missing_field, None)),
                 context, StopCalls, None)

StopChecked(missing, context, o) ==
    IF missing # None
    THEN StopExtracted(missing[1], _extract_field(o.extract_llm), context, o)
    ELSE Decide(stop_engine, STOP_DELIVERY, "AGENT_STOP", STOP_FALLBACK, context, o,
                {"_handle_stop_delivery", "get_missing_info"}, None)

_handle_stop_delivery(message, context, o) ==
    StopChecked(get_missing_info(stop_engine, context), context, o)

(***************************************************************************)
(* AgentSystem._handle_urgent_notice                                       *)
(***************************************************************************)
AGUA == <<"a", "g", "u", "a">>
CAFE == <<"c", "a", "f", "e">>

\* the inference with the coffee test first
InferProductoCafeFirst(message, extracted) ==
    IF message.cafe THEN Str(CAFE) ELSE IF message.agua THEN Str(AGUA) ELSE extracted

InferProducto(message, extracted) ==
    IF message.agua THEN Str(AGUA) ELSE IF message.cafe THEN Str(CAFE) ELSE extracted

UrgentCalls(inferred) ==
    {"_handle_urgent_notice", "get_missing_info", "_extract_field"}
        \cup (IF inferred THEN {"producto_inference"} ELSE {})

\* after context[missing_field] = extracted and the second get_missing_info
UrgentRechecked(f, extracted, inferred, context, missing, o) ==
    IF missing # None
    THEN Handled(Response(<<missing[1].question>>,
                          Collected(missing[1].missing_field, extracted),
                          Some(URGENT_NOTICE), "AGENT_URGENT",
                          Debug("collecting", missing[1].missing_field, None)),
                 context, UrgentCalls(inferred), Some(Extraction(URGENT_NOTICE, f, extracted)))
    ELSE Decide(urgent_engine, URGENT_NOTICE, "AGENT_URGENT", URGENT_FALLBACK, context, o,
                UrgentCalls(inferred), Some(Extraction(URGENT_NOTICE, f, extracted)))

\* after the 'producto' inference
UrgentInferred(missing, extracted, inferred, context, o) ==
    IF Truthy(extracted)
    THEN UrgentRechecked(missing.missing_field, extracted, inferred,
                         Put(context, missing.missing_field, extracted),
                         get_missing_info(urgent_engine, Put(context, missing.missing_field, extracted)),
                         o)
    ELSE Handled(Response(<<missing.question>>, EmptyDict, Some(URGENT_NOTICE), "AGENT_URGENT",
                          Debug("collecting", missing.missing_field, None)),
                 context, UrgentCalls(inferred), None)

\* after _extract_field, for the missing field reported first
UrgentExtracted(missing, got, message, context, o) ==
    IF got.exc THEN Failed(context, UrgentCalls(FALSE), None)
    ELSE IF missing.missing_field = "producto" /\ ~Truthy(got.val)
    THEN UrgentInferred(missing, InferProducto(message, got.val), TRUE, context, o)
    ELSE UrgentInferred(missing, got.val, FALSE, context, o)

UrgentChecked(missing, message, context, o) ==
    IF missing # None
    THEN UrgentExtracted(missing[1], _extract_field(o.extract_llm), message, context, o)
    ELSE Decide(urgent_engine, URGENT_NOTICE, "AGENT_URGENT", URGENT_FALLBACK, context, o,
                {"_handle_urgent_notice", "get_missing_info"}, None)

_handle_urgent_notice(message, context, o) ==
    UrgentChecked(get_missing_info(urgent_engine, context), message, context, o)

(***************************************************************************)
(* AgentSystem.process_request                                             *)
(***************************************************************************)
\* the intent forced to the flow's process when the turn answers the flow;
\* split('_')[1] raises IndexError on a marker without '_'
ForcedIntent(intent, flow_step) ==
    IF intent = ANSWER_FLOW /\ flow_step # None
    THEN IF Len(flow_step[1]) < 2 THEN Raise
         ELSE Return(CASE HasPart(flow_step[1], "URGENT") -> URGENT_NOTICE
                       [] HasPart(flow_step[1], "STOP") -> STOP_DELIVERY
                       [] OTHER -> <<flow_step[1][1], flow_step[1][2]>>)
    ELSE Return(intent)

\* the first routing condition without its 'not is_interruption'
\* routing by the detected intent alone
RoutesToStopByIntent(intent, flow_step, is_interruption) == intent = STOP_DELIVERY

RoutesToStopAnyTurn(intent, flow_step, is_interruption) ==
    \/ intent = STOP_DELIVERY
    \/ flow_step # None /\ StartsWithPart(flow_step[1], "STOP")

RoutesToStop(intent, flow_step, is_interruption) ==
    \/ intent = STOP_DELIVERY
    \/ flow_step # None /\ StartsWithPart(flow_step[1], "STOP") /\ ~is_interruption

\* the second routing condition without its test of the intent
RoutesToUrgentInFlowOnly(intent, flow_step, is_interruption) ==
    flow_step # None /\ StartsWithPart(flow_step[1], "URGENT") /\ ~is_interruption

RoutesToUrgent(intent, flow_step, is_interruption) ==
    \/ intent = URGENT_NOTICE
    \/ flow_step # None /\ StartsWithPart(flow_step[1], "URGENT") /\ ~is_interruption

\* response["flow_step"] = flow_step of the answer to an interrupting FAQ
InterruptionFlowStepCleared(flow_step) == None

InterruptionFlowStep(flow_step) == flow_step

\* the result of process_request, with the analysis it ran on
Processed(analysis, h) ==
    [exc |-> h.exc, analysis |-> analysis, response |-> h.response, context |-> h.context,
     calls |-> h.calls, extracted |-> h.extracted]

\* "2. Logic for Interruption", given what _handle_rag returned
Interrupted(sub, context, flow_step) ==
    IF sub.exc THEN sub
    ELSE Handled(Response(sub.response.answer \o <<RESUME_HINT>>, EmptyDict,
                          InterruptionFlowStep(flow_step), "RAG", NoDebug),
                 context, sub.calls, None)

\* the chat fallback, given what _simple_chat returned
Chatted(said, context) ==
    IF said.exc THEN Failed(context, {"_simple_chat"}, None)
    ELSE Handled(Response(said.val, EmptyDict, None, "CHAT", NoDebug),
                 context, {"_simple_chat"}, None)

\* "3. Routing"
Routed(forced, is_interruption, message, context, flow_step, o) ==
    IF forced.exc THEN Failed(context, {}, None)
    ELSE IF RoutesToStop(forced.val, flow_step, is_interruption)
    THEN _handle_stop_delivery(message, context, o)
    ELSE IF RoutesToUrgent(forced.val, flow_step, is_interruption)
    THEN _handle_urgent_notice(message, context, o)
    ELSE IF forced.val = FAQ
    THEN _handle_rag(context, o)
    ELSE Chatted(_simple_chat(o), context)

\* process_request after "1. Analyze the turn structure"
Analyzed(analyzed, message, context, flow_step, o) ==
    IF analyzed.exc
    THEN Processed(None, Failed(context, {"_analyze_turn"}, None))
    ELSE IF analyzed.val.is_interruption /\ analyzed.val.intent = FAQ
    THEN Processed(Some(analyzed.val), Interrupted(_handle_rag(context, o), context, flow_step))
    ELSE Processed(Some(analyzed.val),
                   Routed(ForcedIntent(analyzed.val.intent, flow_step),
                          analyzed.val.is_interruption, message, context, flow_step, o))

process_request(message, context, flow_step, o) ==
    Analyzed(_analyze_turn(message, flow_step, o), message, context, flow_step, o)

(***************************************************************************)
(* index.py: the /api/chat endpoint and the widget's send handler          *)
(***************************************************************************)
\* an exception becomes the generic failure answer: flow_step None, no context_updates
ErrorEnvelope == Response(<<"Error del Sistema">>, EmptyDict, None, "", NoDebug)

Enveloped(r) == IF r.exc THEN [r EXCEPT !.response = ErrorEnvelope] ELSE r

chat(message, context, flow_step, o) ==
    Enveloped(process_request(message, context, flow_step, o))

\* the context replaced by the updates
syncContextReplaced(context, updates) == updates

\* syncContext(updates): userContext[k] = updates[k] for every key of updates
syncContext(context, updates) ==
    [k \in DOMAIN context \cup DOMAIN updates |->
        IF k \in DOMAIN updates THEN updates[k] ELSE context[k]]

(***************************************************************************)
(* The rule sets of the two processes and the widget's starting contexts   *)
(***************************************************************************)
EX == <<"e", "x">>
TWO == <<"2">>
AHORRO == <<"A">>

StopRules ==
    [process |-> "stop_reparto",
     required_fields |-> <<"motivo", "plan">>,
     questions |-> [f \in {"motivo"} |-> QuestionDef("Q motivo", None)],
     rules |-> << Rule([f \in {"motivo"} |-> Exact(Str(EX))], Decision("APPROVED", 1), Some(1)),
                  Rule([f \in {"motivo", "plan"} |->
                           IF f = "motivo" THEN Exact(Str(TWO))
                           ELSE Range(Some([n |-> 2, d |-> 1]), None)],
                       Decision("ALTERNATIVE", 2), Some(2)) >>]

UrgentRules ==
    [process |-> "aviso_urgente",
     required_fields |-> <<"producto", "cantidad">>,
     questions |-> [f \in {"producto", "cantidad"} |->
                       IF f = "producto" THEN QuestionDef("Q producto", None)
                       ELSE QuestionDef("Q cantidad", None)],
     rules |-> << Rule([f \in {"producto", "cantidad"} |->
                           IF f = "producto" THEN Exact(Str(AGUA))
                           ELSE Range(Some([n |-> 1, d |-> 1]), Some([n |-> 5, d |-> 1]))],
                       Decision("APPROVED", 1), Some(1)) >>]

\* the request's default context, and the widget's defaultContext (the fields the two
\* rule sets read) as it is and with 'motivo' emptied in the settings panel
InitialContexts ==
    { EmptyDict,
      [f \in {"motivo", "plan", "producto", "cantidad"} |->
          CASE f = "plan" -> Str(AHORRO) [] f = "producto" -> Str(AGUA) [] OTHER -> EmptyStr],
      [f \in {"motivo", "plan", "producto", "cantidad"} |->
          CASE f = "motivo" -> Str(EX) [] f = "plan" -> Str(AHORRO)
            [] f = "producto" -> Str(AGUA) [] OTHER -> EmptyStr] }

(***************************************************************************)
(* What the collaborators can answer in a turn                             *)
(***************************************************************************)
Cls(status, classification, detected_intent) ==
    [status |-> status, classification |-> classification, detected_intent |-> detected_intent]

NoCls == Cls("NOT_CALLED", None, None)

\* the keys the code does not read are left out: detected_intent is read only when
\* the classification is not ANSWER_FLOW
TurnClsOutcomes ==
    {Cls("CALL_ERROR", None, None), Cls("NON_JSON", None, None),
     Cls("JSON", None, None), Cls("JSON", Some(ANSWER_FLOW), None)}
    \cup {Cls("JSON", Some(c), d) :
            c \in {INTERRUPTION, NEW_INTENT},
            d \in {None, Some(FAQ), Some(STOP_DELIVERY), Some(URGENT_NOTICE), Some(CHAT),
                   Some(OTHER_LABEL)}}

NoIntent == [ok |-> TRUE, marks |-> {}]

\* one text per outcome of the three substring tests, two of them holding two marks
IntentOutcomes ==
    {[ok |-> FALSE, marks |-> {}]}
    \cup {[ok |-> TRUE, marks |-> m] : m \in {{}, {"STOP", "URGENT"}, {"URGENT", "FAQ"}, {"FAQ"}}}

NoExtract == [kind |-> "NULL", s |-> <<>>]

ExtractOutcomes ==
    {[kind |-> k, s |-> <<>>] : k \in {"ERROR", "NULL", "EMPTY", "QUOTES"}}
    \cup {[kind |-> "TEXT", s |-> v] : v \in {EX, TWO}}

Message(keyword, agua, cafe) == [keyword |-> keyword, agua |-> agua, cafe |-> cafe]

Oracle(cls, intent_llm, extract_llm, gen_ok) ==
    [cls |-> cls, intent_llm |-> intent_llm, extract_llm |-> extract_llm, gen_ok |-> gen_ok]

GenerationCalls == {"_handle_rag", "_simple_chat", "_generate_decision_response"}

\* how the turn classifier ended, as the trace records it
ClassifierTrace(cls) ==
    CASE cls.status # "JSON" -> cls.status
      [] TryClassifier(cls).exc -> "MISSING_KEY"
      [] OTHER -> "OK"

(***************************************************************************)
(* The session: one /api/chat round trip of the widget                     *)
(***************************************************************************)
\* a rule-set file: MISSING (open raises), NOT_JSON (json.load raises), NOT_OBJECT (a
\* JSON value without .get) or OBJECT with the keys it holds
RuleFile(kind, keys, data) == [kind |-> kind, keys |-> keys, data |-> data]

RuleFileKeys == {"rules", "required_fields", "questions"}

RuleSetsOnDisk ==
    [stop |-> RuleFile("OBJECT", RuleFileKeys, StopRules),
     urgent |-> RuleFile("OBJECT", RuleFileKeys, UrgentRules)]

\* rag_sync is not running
SyncIdle == [pc |-> "idle"]

ChunkerIdle == [pc |-> "idle"]

NoFlowResponse == [kind |-> "none", process |-> <<>>, field |-> "", still_missing |-> FALSE]

NoTurn ==
    [kind |-> "none", request |-> [flow_step |-> None, context |-> EmptyDict],
     classifier |-> "NOT_CALLED", keyword |-> FALSE, fallback |-> "NOT_CALLED",
     intent_reply |-> None,
     drawn |-> [message |-> Message(FALSE, FALSE, FALSE),
                o |-> Oracle(NoCls, NoIntent, NoExtract, TRUE)],
     analysis |-> None, raised |-> FALSE, response |-> ErrorEnvelope, calls |-> {},
     extracted |-> None, context_after |-> EmptyDict]

FlowResponse(process, engine, dbg, context) ==
    [kind |-> dbg.kind, process |-> process, field |-> dbg.field,
     still_missing |->
         /\ dbg.kind = "collecting"
         /\ \E i \in 1..Len(engine.data.required_fields) :
               engine.data.required_fields[i] = dbg.field
         /\ IsMissing(context, dbg.field)]

\* the most recent response of a flow handler, once the reply r is received
FlowResponseOf(r, previous) ==
    IF r.raised THEN previous
    ELSE IF "_handle_stop_delivery" \in r.calls
    THEN FlowResponse(STOP_DELIVERY, stop_engine, r.response.debug_info, r.context_after)
    ELSE IF "_handle_urgent_notice" \in r.calls
    THEN FlowResponse(URGENT_NOTICE, urgent_engine, r.response.debug_info, r.context_after)
    ELSE previous

Init ==
    /\ eng = None
    /\ ctx = EmptyDict
    /\ ret = NoCall
    /\ stop_engine = RuleEngine(StopRules)
    /\ urgent_engine = RuleEngine(UrgentRules)
    /\ userContext \in InitialContexts
    /\ flowStep = None
    /\ turn = NoTurn
    /\ lastFlowResponse = NoFlowResponse
    /\ other = NoTurn
    /\ disk = RuleSetsOnDisk
    /\ sync = SyncIdle
    /\ chunker = ChunkerIdle

\* ask(), up to the fetch: the widget posts its flow marker and its context
Ask ==
    /\ turn.kind \in {"none", "done"}
    /\ turn' = [NoTurn EXCEPT !.kind = "sent",
                              !.request = [flow_step |-> flowStep, context |-> userContext]]
    /\ UNCHANGED <<eng, ctx, ret, stop_engine, urgent_engine, userContext, flowStep,
                   lastFlowResponse, other,
                   disk, sync, chunker>>

\* the engine of a handler after the turn: what its get_missing_info and evaluate
\* calls left in it
EngineAfterTurnEmptied(engine, handler, calls) ==
    IF handler \in calls THEN [engine EXCEPT !.rules = <<>>] ELSE engine

EngineAfterTurn(engine, handler, calls) ==
    IF handler \in calls THEN EngineAfterCall(engine) ELSE engine

\* the trace of a served request
Replied(request, d, cls, keyword, intent_llm, message, o) ==
    [kind |-> "replied",
     request |-> request,
     classifier |-> IF request.flow_step = None THEN "NOT_CALLED" ELSE ClassifierTrace(cls),
     keyword |-> keyword,
     fallback |-> IF request.flow_step # None /\ TryClassifier(cls).exc /\ ~keyword
                  THEN (IF intent_llm.ok THEN "OK" ELSE "RAISED")
                  ELSE "NOT_CALLED",
     intent_reply |-> IF /\ request.flow_step = None \/ (TryClassifier(cls).exc /\ ~keyword)
                         /\ intent_llm.ok
                      THEN Some(intent_llm.marks) ELSE None,
     drawn |-> [message |-> message, o |-> o],
     analysis |-> d.analysis, raised |-> d.exc, response |-> d.response,
     calls |-> d.calls, extracted |-> d.extracted, context_after |-> d.context]

\* the endpoint handles the posted request; what the message and the collaborators
\* hold is chosen where the code reads it and left at a default where it does not
Serve ==
    /\ turn.kind = "sent"
    /\ \E cls \in (IF turn.request.flow_step = None THEN {NoCls} ELSE TurnClsOutcomes) :
       \E keyword \in (IF turn.request.flow_step # None /\ TryClassifier(cls).exc
                       THEN BOOLEAN ELSE {FALSE}) :
       \E intent_llm \in (IF turn.request.flow_step = None \/ (TryClassifier(cls).exc /\ ~keyword)
                          THEN IntentOutcomes ELSE {NoIntent}) :
       \E extract_llm \in
           (IF "_extract_field" \in
                  chat(Message(keyword, FALSE, FALSE), turn.request.context,
                       turn.request.flow_step, Oracle(cls, intent_llm, NoExtract, TRUE)).calls
            THEN ExtractOutcomes ELSE {NoExtract}) :
       \E agua, cafe \in
           (IF "producto_inference" \in
                  chat(Message(keyword, FALSE, FALSE), turn.request.context,
                       turn.request.flow_step, Oracle(cls, intent_llm, extract_llm, TRUE)).calls
            THEN BOOLEAN ELSE {FALSE}) :
       \E gen_ok \in
           (IF GenerationCalls \cap
                  chat(Message(keyword, agua, cafe), turn.request.context,
                       turn.request.flow_step, Oracle(cls, intent_llm, extract_llm, TRUE)).calls
               # {}
            THEN BOOLEAN ELSE {TRUE}) :
           /\ turn' = Replied(turn.request,
                              chat(Message(keyword, agua, cafe), turn.request.context,
                                   turn.request.flow_step,
                                   Oracle(cls, intent_llm, extract_llm, gen_ok)),
                              cls, keyword, intent_llm,
                              Message(keyword, agua, cafe),
                              Oracle(cls, intent_llm, extract_llm, gen_ok))
           /\ stop_engine' =
                  EngineAfterTurn(stop_engine, "_handle_stop_delivery", turn'.calls)
           /\ urgent_engine' =
                  EngineAfterTurn(urgent_engine, "_handle_urgent_notice", turn'.calls)
    /\ UNCHANGED <<eng, ctx, ret, userContext, flowStep, lastFlowResponse, other,
                   disk, sync, chunker>>

\* ask(), after the fetch: flowStep = d.flow_step; syncContext(d.context_updates)
Receive ==
    /\ turn.kind = "replied"
    /\ flowStep' = turn.response.flow_step
    /\ userContext' = syncContext(userContext, turn.response.context_updates)
    /\ lastFlowResponse' = FlowResponseOf(turn, lastFlowResponse)
    /\ turn' = [turn EXCEPT !.kind = "done"]
    /\ UNCHANGED <<eng, ctx, ret, stop_engine, urgent_engine, other,
                   disk, sync, chunker>>

Next == Ask \/ Serve \/ Receive

Spec == Init /\ [][Next]_vars

(***************************************************************************)
(* A conversation that stays with one flow handler: every served turn runs *)
(* a flow handler (the marker's when one is set) without an error, and     *)
(* _extract_field returns a value whenever it is called                    *)
(***************************************************************************)
Cooperative(t) ==
    /\ ~t.raised
    /\ t.calls \cap {"_handle_stop_delivery", "_handle_urgent_notice"} # {}
    /\ t.request.flow_step = Some(STOP_DELIVERY) => "_handle_stop_delivery" \in t.calls
    /\ t.request.flow_step = Some(URGENT_NOTICE) => "_handle_urgent_notice" \in t.calls
    /\ "_extract_field" \in t.calls => t.extracted # None

ServeFlow == Serve /\ Cooperative(turn')

NextFlow == Ask \/ ServeFlow \/ Receive

SpecFlow == Init /\ [][NextFlow]_vars

(***************************************************************************)
(* A client that posts one request to /api/chat with a flow marker of its  *)
(* own: ChatRequest.flow_step is any string or null                        *)
(***************************************************************************)
MarkerPool ==
    {None, Some(STOP_DELIVERY), Some(URGENT_NOTICE), Some(<<"STOP">>), Some(<<"URGENT">>),
     Some(<<"STOP", "URGENT">>), Some(<<"PAUSE", "STOP">>), Some(<<"FOO", "BAR">>)}

InitRequest ==
    /\ eng = None
    /\ ctx = EmptyDict
    /\ ret = NoCall
    /\ stop_engine = RuleEngine(StopRules)
    /\ urgent_engine = RuleEngine(UrgentRules)
    /\ userContext = EmptyDict
    /\ flowStep = None
    /\ lastFlowResponse = NoFlowResponse
    /\ other = NoTurn
    /\ disk = RuleSetsOnDisk
    /\ sync = SyncIdle
    /\ chunker = ChunkerIdle
    /\ \E marker \in MarkerPool, context \in InitialContexts :
          turn = [NoTurn EXCEPT !.kind = "sent",
                                !.request = [flow_step |-> marker, context |-> context]]

NextRequest == Serve

SpecRequest == InitRequest /\ [][NextRequest]_vars

(***************************************************************************)
(* Two sessions, each posting one request to /api/chat: the endpoint serves *)
(* the requests one at a time, in either order, on the one AgentSystem      *)
(***************************************************************************)
SessionMarkers == {None, Some(STOP_DELIVERY), Some(URGENT_NOTICE)}

SessionRequests ==
    {[flow_step |-> marker, context |-> context] :
        marker \in SessionMarkers, context \in InitialContexts}

InitSessions ==
    /\ eng = None
    /\ ctx = EmptyDict
    /\ ret = NoCall
    /\ stop_engine = RuleEngine(StopRules)
    /\ urgent_engine = RuleEngine(UrgentRules)
    /\ userContext = EmptyDict
    /\ flowStep = None
    /\ lastFlowResponse = NoFlowResponse
    /\ \E request \in SessionRequests :
          turn = [NoTurn EXCEPT !.kind = "sent", !.request = request]
    /\ \E request \in SessionRequests :
          other = [NoTurn EXCEPT !.kind = "sent", !.request = request]
    /\ disk = RuleSetsOnDisk
    /\ sync = SyncIdle
    /\ chunker = ChunkerIdle

\* what the endpoint keeps of a request: nothing of a served one but that it was served
Parked(t) ==
    IF t.kind = "sent" THEN t ELSE [NoTurn EXCEPT !.kind = "done", !.request = t.request]

\* the endpoint takes up the request of the other session
Switch ==
    /\ other.kind = "sent"
    /\ turn' = other
    /\ other' = Parked(turn)
    /\ UNCHANGED <<eng, ctx, ret, stop_engine, urgent_engine, userContext, flowStep,
                   lastFlowResponse,
                   disk, sync, chunker>>

NextSessions == Serve \/ Switch

SpecSessions == InitSessions /\ [][NextSessions]_vars

(***************************************************************************)
(* Loading the rule sets: agent_system is None (both engines None) until a *)
(* request's get_agent_system constructs the AgentSystem from the files    *)
(***************************************************************************)
\* self.data of an OBJECT file, with the defaults .get gives for the keys it lacks
Parsed(file) ==
    [process |-> file.data.process,
     rules |-> IF "rules" \in file.keys THEN file.data.rules ELSE <<>>,
     required_fields |->
         IF "required_fields" \in file.keys THEN file.data.required_fields ELSE <<>>,
     questions |-> IF "questions" \in file.keys THEN file.data.questions ELSE EmptyDict]

\* RuleEngine(path): open, json.load and self.data.get raise for the first three kinds
LoadRuleEngine(file) ==
    IF file.kind # "OBJECT" THEN Raise ELSE Return(RuleEngine(Parsed(file)))

RuleFilePool(data) ==
    {RuleFile(k, {}, data) : k \in {"MISSING", "NOT_JSON", "NOT_OBJECT"}}
        \cup {RuleFile("OBJECT", keys, data) :
                 keys \in {RuleFileKeys, {"required_fields", "questions"}, {}}}

InitLoad ==
    /\ eng = None
    /\ ctx = EmptyDict
    /\ ret = NoCall
    /\ stop_engine = None
    /\ urgent_engine = None
    /\ userContext = EmptyDict
    /\ flowStep = None
    /\ lastFlowResponse = NoFlowResponse
    /\ other = NoTurn
    /\ \E request \in SessionRequests :
          turn = [NoTurn EXCEPT !.kind = "sent", !.request = request]
    /\ \E stop \in RuleFilePool(StopRules), urgent \in RuleFilePool(UrgentRules) :
          disk = [stop |-> stop, urgent |-> urgent]
    /\ sync = SyncIdle
    /\ chunker = ChunkerIdle

\* get_agent_system() of a request while agent_system is None: AgentSystem() loads the
\* stop rules, then the urgent rules; an exception leaves agent_system None and becomes
\* the endpoint's failure answer
GetAgentSystem ==
    /\ turn.kind = "sent"
    /\ stop_engine = None
    /\ IF LoadRuleEngine(disk.stop).exc \/ LoadRuleEngine(disk.urgent).exc
       THEN /\ turn' = [turn EXCEPT !.kind = "replied", !.raised = TRUE,
                                    !.calls = {"get_agent_system"}]
            /\ UNCHANGED <<stop_engine, urgent_engine>>
       ELSE /\ stop_engine' = LoadRuleEngine(disk.stop).val
            /\ urgent_engine' = LoadRuleEngine(disk.urgent).val
            /\ UNCHANGED turn
    /\ UNCHANGED <<eng, ctx, ret, userContext, flowStep, lastFlowResponse, other,
                   disk, sync, chunker>>

\* the request goes on to process_request on the constructed AgentSystem
ServeLoaded == stop_engine # None /\ Serve

\* the client posts the same request again after a failure answer
Retry ==
    /\ turn.kind = "replied"
    /\ turn.raised
    /\ turn' = [NoTurn EXCEPT !.kind = "sent", !.request = turn.request]
    /\ UNCHANGED <<eng, ctx, ret, stop_engine, urgent_engine, userContext, flowStep,
                   lastFlowResponse, other, disk, sync, chunker>>

NextLoad == GetAgentSystem \/ ServeLoaded \/ Retry

SpecLoad == InitLoad /\ [][NextLoad]_vars

(***************************************************************************)
(* rag_sync: SyncPipeline over the Drive folder, the Salesforce articles,  *)
(* the sync state file and the vector index.  A document's version is its  *)
(* modified time; 0 stands for no file, no state entry, no vectors.        *)
(***************************************************************************)
MaxVersion == 2

DriveIds == {"d1", "d2"}

ArticleIds == {"a1"}

DocIds == DriveIds \cup ArticleIds

\* the methods class Processor defines
ProcessorMethods == {"chunk_text", "embed_batch", "process_file"}

\* self.processor.process_content(...): the attribute lookup raises AttributeError
\* unless Processor has the method
process_content ==
    IF "process_content" \in ProcessorMethods THEN {"vectors", "empty", "raise"}
    ELSE {"raise"}

get_all_file_ids(state) == {fid \in DocIds : state[fid] # 0}

get_modified_time(state, fid) == state[fid]

update_file(state, fid, modified_time) == [state EXCEPT ![fid] = modified_time]

remove_file(state, fid) == [state EXCEPT ![fid] = 0]

delete_by_file_id(index, fid) == [index EXCEPT ![fid] = 0]

upsert(index, fid, version) == [index EXCEPT ![fid] = version]

\* the state file and the index as an earlier run left them, the sources unchanged since
Synced(versions) ==
    [pc |-> "idle", remote |-> versions, state |-> versions, index |-> versions,
     added |-> {}, removed |-> {}, articles |-> {}, due |-> {}, checking |-> {},
     ran |-> FALSE, failed |-> FALSE]

InitSync ==
    /\ eng = None
    /\ ctx = EmptyDict
    /\ ret = NoCall
    /\ stop_engine = None
    /\ urgent_engine = None
    /\ userContext = EmptyDict
    /\ flowStep = None
    /\ lastFlowResponse = NoFlowResponse
    /\ other = NoTurn
    /\ turn = NoTurn
    /\ disk = RuleSetsOnDisk
    /\ \E versions \in [DocIds -> 0..1] : sync = Synced(versions)
    /\ chunker = ChunkerIdle

\* between two runs a file or article is created, modified or removed at its source
SourceChange ==
    /\ sync.pc = "idle"
    /\ \E fid \in DocIds, version \in 0..MaxVersion :
          /\ version # sync.remote[fid]
          /\ version # 0 =>
                /\ version > sync.remote[fid]
                /\ version > sync.state[fid]
                /\ version > sync.index[fid]
          /\ sync' = [sync EXCEPT !.remote[fid] = version, !.due = @ \cup {fid},
                                  !.ran = FALSE]
    /\ UNCHANGED <<eng, ctx, ret, stop_engine, urgent_engine, userContext, flowStep, turn,
                   lastFlowResponse, other, disk, chunker>>

\* run, sync_google_drive lines 43-51: list the folder (an exception ends the Drive
\* sync) and detect the changes
DetectDriveChanges ==
    /\ sync.pc = "idle"
    /\ \E listed \in BOOLEAN :
          sync' = IF listed
                  THEN [sync EXCEPT
                           !.pc = "drive",
                           !.added = {fid \in DriveIds : sync.remote[fid] # 0}
                                        \ get_all_file_ids(sync.state),
                           !.removed = get_all_file_ids(sync.state)
                                          \ {fid \in DriveIds : sync.remote[fid] # 0},
                           !.checking = sync.due, !.due = {}, !.ran = FALSE,
                           !.failed = FALSE]
                  ELSE [sync EXCEPT !.pc = "list_articles", !.checking = sync.due,
                                    !.due = {}, !.ran = FALSE, !.failed = TRUE]
    /\ UNCHANGED <<eng, ctx, ret, stop_engine, urgent_engine, userContext, flowStep, turn,
                   lastFlowResponse, other, disk, chunker>>

\* sync_google_drive lines 54-56, one iteration: delete_by_file_id raising ends the sync
DriveRemoved ==
    /\ sync.pc = "drive"
    /\ sync.removed # {}
    /\ \E fid \in sync.removed, deleted \in BOOLEAN :
          sync' = IF deleted
                  THEN [sync EXCEPT !.index = delete_by_file_id(sync.index, fid),
                                    !.state = remove_file(sync.state, fid),
                                    !.removed = @ \ {fid}]
                  ELSE [sync EXCEPT !.pc = "list_articles", !.added = {}, !.removed = {},
                                    !.failed = TRUE]
    /\ UNCHANGED <<eng, ctx, ret, stop_engine, urgent_engine, userContext, flowStep, turn,
                   lastFlowResponse, other, disk, chunker>>

\* lines 60-66 for one file: content is None for a failed or unsupported download
DriveFileAdded(fid, content, vectors, upserted) ==
    IF ~content
    THEN [sync EXCEPT !.added = @ \ {fid}, !.failed = TRUE]
    ELSE IF vectors = "empty"
    THEN [sync EXCEPT !.added = @ \ {fid}]
    ELSE IF vectors = "raise"
    THEN [sync EXCEPT !.pc = "list_articles", !.added = {}]
    ELSE IF ~upserted
    THEN [sync EXCEPT !.pc = "list_articles", !.added = {}, !.failed = TRUE]
    ELSE [sync EXCEPT !.index = upsert(sync.index, fid, sync.remote[fid]),
                      !.state = update_file(sync.state, fid, sync.remote[fid]),
                      !.added = @ \ {fid}]

\* sync_google_drive lines 58-66, one iteration
DriveAdded ==
    /\ sync.pc = "drive"
    /\ sync.removed = {}
    /\ sync.added # {}
    /\ \E fid \in sync.added, content \in BOOLEAN, vectors \in process_content,
          upserted \in BOOLEAN :
          sync' = DriveFileAdded(fid, content, vectors, upserted)
    /\ UNCHANGED <<eng, ctx, ret, stop_engine, urgent_engine, userContext, flowStep, turn,
                   lastFlowResponse, other, disk, chunker>>

\* both loops of sync_google_drive are over
DriveSynced ==
    /\ sync.pc = "drive"
    /\ sync.removed = {}
    /\ sync.added = {}
    /\ sync' = [sync EXCEPT !.pc = "list_articles"]
    /\ UNCHANGED <<eng, ctx, ret, stop_engine, urgent_engine, userContext, flowStep, turn,
                   lastFlowResponse, other, disk, chunker>>

\* sync_salesforce_knowledge line 74: get_knowledge_articles returns [] when it fails
ListArticles ==
    /\ sync.pc = "list_articles"
    /\ \E listed \in BOOLEAN :
          sync' = [sync EXCEPT
                      !.pc = "salesforce",
                      !.articles = IF listed
                                   THEN {art_id \in ArticleIds : sync.remote[art_id] # 0}
                                   ELSE {},
                      !.failed = @ \/ ~listed]
    /\ UNCHANGED <<eng, ctx, ret, stop_engine, urgent_engine, userContext, flowStep, turn,
                   lastFlowResponse, other, disk, chunker>>

\* lines 77-101 for one article: the old vectors are deleted (line 88) before the new
\* content is processed (line 98); an exception ends the sync and the run
ArticleSynced(art_id, details, deleted, vectors, upserted) ==
    IF sync.remote[art_id] = get_modified_time(sync.state, art_id)
    THEN [sync EXCEPT !.articles = @ \ {art_id}]
    ELSE IF ~details
    THEN [sync EXCEPT !.articles = @ \ {art_id}, !.failed = TRUE]
    ELSE IF ~deleted
    THEN [sync EXCEPT !.pc = "idle", !.ran = TRUE, !.articles = {}, !.failed = TRUE]
    ELSE IF vectors = "raise"
    THEN [sync EXCEPT !.index = delete_by_file_id(sync.index, art_id),
                      !.pc = "idle", !.ran = TRUE, !.articles = {}]
    ELSE IF vectors = "vectors" /\ ~upserted
    THEN [sync EXCEPT !.index = delete_by_file_id(sync.index, art_id),
                      !.pc = "idle", !.ran = TRUE, !.articles = {}, !.failed = TRUE]
    ELSE IF vectors = "empty"
    THEN [sync EXCEPT !.index = delete_by_file_id(sync.index, art_id),
                      !.articles = @ \ {art_id}]
    ELSE [sync EXCEPT !.index = upsert(sync.index, art_id, sync.remote[art_id]),
                      !.state = update_file(sync.state, art_id, sync.remote[art_id]),
                      !.articles = @ \ {art_id}]

\* sync_salesforce_knowledge lines 76-101, one iteration
SalesforceArticle ==
    /\ sync.pc = "salesforce"
    /\ sync.articles # {}
    /\ \E art_id \in sync.articles, details \in BOOLEAN, deleted \in BOOLEAN,
          vectors \in process_content, upserted \in BOOLEAN :
          sync' = ArticleSynced(art_id, details, deleted, vectors, upserted)
    /\ UNCHANGED <<eng, ctx, ret, stop_engine, urgent_engine, userContext, flowStep, turn,
                   lastFlowResponse, other, disk, chunker>>

\* the article loop is over and run returns
SalesforceSynced ==
    /\ sync.pc = "salesforce"
    /\ sync.articles = {}
    /\ sync' = [sync EXCEPT !.pc = "idle", !.ran = TRUE]
    /\ UNCHANGED <<eng, ctx, ret, stop_engine, urgent_engine, userContext, flowStep, turn,
                   lastFlowResponse, other, disk, chunker>>

NextSync ==
    \/ SourceChange
    \/ DetectDriveChanges
    \/ DriveRemoved
    \/ DriveAdded
    \/ DriveSynced
    \/ ListArticles
    \/ SalesforceArticle
    \/ SalesforceSynced

SpecSync == InitSync /\ [][NextSync]_vars

(***************************************************************************)
(* rag_sync: Processor.chunk_text, one action per loop iteration.  A text  *)
(* is the sequence of its characters, each written as its position.        *)
(***************************************************************************)
MaxTextLen == 6

MaxChunkSize == 4

Texts == {[i \in 1..n |-> i] : n \in 0..MaxTextLen}

\* text[start:end]
Slice(text, start, end) == SubSeq(text, start + 1, end)

Min(a, b) == IF a <= b THEN a ELSE b

ChunkEnd(start, chunk_size, text_len) == Min(start + chunk_size, text_len)

\* a step of a whole chunk
NextStartNoOverlap(start, chunk_size, chunk_overlap) == start + chunk_size

NextStart(start, chunk_size, chunk_overlap) == start + (chunk_size - chunk_overlap)

InitChunk ==
    /\ eng = None
    /\ ctx = EmptyDict
    /\ ret = NoCall
    /\ stop_engine = None
    /\ urgent_engine = None
    /\ userContext = EmptyDict
    /\ flowStep = None
    /\ lastFlowResponse = NoFlowResponse
    /\ other = NoTurn
    /\ turn = NoTurn
    /\ disk = RuleSetsOnDisk
    /\ sync = SyncIdle
    /\ chunker = ChunkerIdle

\* chunk_text(text, chunk_size, chunk_overlap) up to the loop: an empty text returns []
chunk_textCall ==
    /\ chunker.pc = "idle"
    /\ \E text \in Texts, chunk_size \in 1..MaxChunkSize :
          \E chunk_overlap \in 0..(chunk_size - 1) :
             chunker' = [pc |-> IF Len(text) = 0 THEN "done" ELSE "loop",
                         text |-> text, chunk_size |-> chunk_size,
                         chunk_overlap |-> chunk_overlap, start |-> 0, chunks |-> <<>>]
    /\ UNCHANGED <<eng, ctx, ret, stop_engine, urgent_engine, userContext, flowStep, turn,
                   lastFlowResponse, other, disk, sync>>

\* one iteration of `while start < text_len`: append the chunk, break at the end of the
\* text, else advance start
chunk_textLoop ==
    /\ chunker.pc = "loop"
    /\ chunker' =
          [chunker EXCEPT
              !.chunks = Append(@, Slice(chunker.text, chunker.start,
                                         ChunkEnd(chunker.start, chunker.chunk_size,
                                                  Len(chunker.text)))),
              !.start = IF ChunkEnd(chunker.start, chunker.chunk_size, Len(chunker.text))
                              = Len(chunker.text)
                        THEN @
                        ELSE NextStart(@, chunker.chunk_size, chunker.chunk_overlap),
              !.pc = IF \/ ChunkEnd(chunker.start, chunker.chunk_size, Len(chunker.text))
                              = Len(chunker.text)
                        \/ ~(NextStart(chunker.start, chunker.chunk_size,
                                       chunker.chunk_overlap) < Len(chunker.text))
                     THEN "done"
                     ELSE "loop"]
    /\ UNCHANGED <<eng, ctx, ret, stop_engine, urgent_engine, userContext, flowStep, turn,
                   lastFlowResponse, other, disk, sync>>

\* return chunks; the Processor is ready for the next text
chunk_textReturn ==
    /\ chunker.pc = "done"
    /\ chunker' = ChunkerIdle
    /\ UNCHANGED <<eng, ctx, ret, stop_engine, urgent_engine, userContext, flowStep, turn,
                   lastFlowResponse, other, disk, sync>>

NextChunk == chunk_textCall \/ chunk_textLoop \/ chunk_textReturn

\* a started call keeps executing its loop
SpecChunk == InitChunk /\ [][NextChunk]_vars /\ WF_vars(chunk_textLoop)

(***************************************************************************)
(* Engine harness: a caller that builds a RuleEngine from a rule-set file  *)
(* and calls get_missing_info, evaluate and evaluate again, or _matches,    *)
(* on a context                                                            *)
(***************************************************************************)
EngFields == {"motivo", "scoring"}

ValuePool ==
    {Null, EmptyStr, Str(<<"3", "b">>), Num(0), Num(3), Bool(FALSE)}

Contexts == UNION {[D -> ValuePool] : D \in SUBSET EngFields}

WhenPool ==
    { EmptyDict,
      [f \in {"motivo"} |-> Exact(Str(<<"3", "b">>))],
      [f \in {"scoring"} |-> Range(Some([n |-> 2, d |-> 1]), None)],
      [f \in {"motivo", "scoring"} |->
          IF f = "motivo" THEN Exact(Bool(FALSE)) ELSE Range(None, Some([n |-> 3, d |-> 1]))] }

PriorityPool == {None} \cup {Some(p) : p \in 1..MaxPriority}

\* rule lists in declaration order; the i-th declared rule carries decision i
RuleLists ==
    UNION { { [i \in 1..n |-> Rule(w[i], Decision("RULE", i), p[i])] :
                 w \in [1..n -> WhenPool], p \in [1..n -> PriorityPool] } :
            n \in 0..MaxRules }

MotivoOptions ==
    Some(<< [value |-> <<"e", "x">>, label |-> "Exceso de agua"],
            [value |-> <<"v", "a">>, label |-> "Vacaciones"] >>)

RequiredPool ==
    { [required_fields |-> <<>>, questions |-> EmptyDict],
      [required_fields |-> <<"motivo">>,
       questions |-> [f \in {"motivo"} |-> QuestionDef("Q motivo", MotivoOptions)]],
      [required_fields |-> <<"motivo", "scoring">>,
       questions |-> [f \in {"motivo"} |-> QuestionDef("Q motivo", MotivoOptions)]],
      [required_fields |-> <<"scoring", "motivo">>,
       questions |-> [f \in {"motivo", "scoring"} |->
           IF f = "motivo" THEN QuestionDef("Q motivo", MotivoOptions)
           ELSE QuestionDef("Q scoring", None)]] }

RuleSetFiles ==
    { [process |-> "test", rules |-> rs,
       required_fields |-> rq.required_fields, questions |-> rq.questions] :
      rs \in RuleLists, rq \in RequiredPool }

\* index.py: agent_system = None until the first request; the widget's initial state
SessionIdle ==
    /\ stop_engine = None
    /\ urgent_engine = None
    /\ userContext = EmptyDict
    /\ flowStep = None
    /\ turn = NoTurn
    /\ lastFlowResponse = NoFlowResponse
    /\ other = NoTurn
    /\ disk = RuleSetsOnDisk
    /\ sync = SyncIdle
    /\ chunker = ChunkerIdle

InitEngine ==
    /\ eng \in {RuleEngine(data) : data \in RuleSetFiles}
    /\ ctx \in Contexts
    /\ ret = NoCall
    /\ SessionIdle

CallEvaluate ==
    /\ ret.op \in {"none", "get_missing_info"}
    /\ ret' = [op |-> "evaluate", value |-> evaluate(eng, ctx)]
    /\ eng' = EngineAfterCall(eng)
    /\ ctx' = ContextAfterCall(ctx)
    /\ UNCHANGED <<stop_engine, urgent_engine, userContext, flowStep, turn, lastFlowResponse,
                   other,
                   disk, sync, chunker>>

\* a second evaluate on the engine and the context the first one left
CallEvaluateAgain ==
    /\ ret.op = "evaluate"
    /\ ret' = [op |-> "evaluate_again", value |-> evaluate(eng, ctx), first |-> ret.value]
    /\ eng' = EngineAfterCall(eng)
    /\ ctx' = ContextAfterCall(ctx)
    /\ UNCHANGED <<stop_engine, urgent_engine, userContext, flowStep, turn, lastFlowResponse,
                   other,
                   disk, sync, chunker>>

CallGetMissingInfo ==
    /\ ret = NoCall
    /\ ret' = [op |-> "get_missing_info", value |-> get_missing_info(eng, ctx)]
    /\ eng' = EngineAfterCall(eng)
    /\ ctx' = ContextAfterCall(ctx)
    /\ UNCHANGED <<stop_engine, urgent_engine, userContext, flowStep, turn, lastFlowResponse,
                   other,
                   disk, sync, chunker>>

\* _matches on the conditions of the i-th declared rule
CallMatches ==
    /\ ret = NoCall
    /\ \E i \in 1..Len(eng.data.rules) :
          ret' = [op |-> "_matches", value |-> None, rule |-> i,
                  matched |-> _matches(eng.data.rules[i].when, ctx)]
    /\ UNCHANGED <<eng, ctx, stop_engine, urgent_engine, userContext, flowStep, turn,
                   lastFlowResponse, other,
                   disk, sync, chunker>>

NextEngine == CallEvaluate \/ CallGetMissingInfo \/ CallMatches \/ CallEvaluateAgain

SpecEngine == InitEngine /\ [][NextEngine]_vars

(***************************************************************************)
(* Range harness: the engine is built from a rule set whose single rule    *)
(* holds one numeric range condition on 'scoring'; the fact is a string of *)
(* up to MaxLen characters, a native number, a boolean, null or absent     *)
(***************************************************************************)
RangeChars == {"1", "3", "-", ".", "b"}

RangeStrings == UNION {[1..n -> RangeChars] : n \in 0..MaxLen}

RangeValues ==
    {Str(cs) : cs \in RangeStrings}
        \cup {Num(1), Num(3), Num(-3), Frac(31, 10), Bool(TRUE), Null}

RangeContexts == {EmptyDict} \cup {[f \in {"scoring"} |-> v] : v \in RangeValues}

\* the values of 'min' and 'max'; None when the key is not in the condition
RangeBounds ==
    {None, Some([n |-> 2, d |-> 1]), Some([n |-> 3, d |-> 1]), Some([n |-> 31, d |-> 10])}

RangeRuleFiles ==
    { [process |-> "test",
       rules |-> << Rule([f \in {"scoring"} |-> Range(lo, hi)], Decision("RULE", 1), None) >>,
       required_fields |-> <<>>, questions |-> EmptyDict] :
      lo \in RangeBounds, hi \in RangeBounds }

InitRange ==
    /\ eng \in {RuleEngine(data) : data \in RangeRuleFiles}
    /\ ctx \in RangeContexts
    /\ ret = NoCall
    /\ SessionIdle

SpecRange == InitRange /\ [][NextEngine]_vars

(***************************************************************************)
(* Claims about the rule engine (checked under SpecEngine)                 *)
(***************************************************************************)
Declared == eng.data.rules

Matching == {i \in 1..Len(Declared) : _matches(Declared[i].when, ctx)}

\* C1: evaluate(C) returns the 'then' block of a matching rule whose priority no
\* other matching rule exceeds, and returns nothing exactly when no rule matches C.
C1_EvaluateHighestPriority ==
    ret.op = "evaluate" =>
        /\ (ret.value = None) <=> (Matching = {})
        /\ Matching # {} =>
              \E i \in Matching :
                  /\ ret.value = Some(Declared[i].then)
                  /\ \A j \in Matching : PriorityKey(Declared[j]) <= PriorityKey(Declared[i])

\* C1 witness: two rules match, the one declared later has the higher priority,
\* and evaluate returned the later one's decision.
C1_Witness ==
    /\ ret.op = "evaluate"
    /\ Len(Declared) = 2
    /\ Matching = {1, 2}
    /\ PriorityKey(Declared[2]) > PriorityKey(Declared[1])
    /\ ret.value = Some(Declared[2].then)

Required == eng.data.required_fields

Supplied(context, f) ==
    /\ f \in DOMAIN context
    /\ context[f].t # "null"
    /\ ~(context[f].t = "str" /\ Len(context[f].s) = 0)

\* C9: get_missing_info(C) returns nothing iff every required field is present in C
\* with a value that is neither null nor the empty string.
C9_MissingInfoNoneIffComplete ==
    ret.op = "get_missing_info" =>
        ((ret.value = None) <=> (\A i \in 1..Len(Required) : Supplied(ctx, Required[i])))

\* C9 witness: two required fields, both supplied, one of them with the value 0 or
\* False, and get_missing_info returned nothing.
C9_Witness ==
    /\ ret.op = "get_missing_info"
    /\ ret.value = None
    /\ Len(Required) = 2
    /\ \E i \in 1..2 : ctx[Required[i]] \in {Num(0), Bool(FALSE)}

\* C10: the reported field is the first required field, in declaration order, that
\* is absent, null or empty, and the question and options returned are the ones
\* defined for that field (the default prompt when none is defined).
C10_FirstMissingInOrder ==
    (ret.op = "get_missing_info" /\ ret.value # None) =>
        LET r == ret.value[1]
            qs == eng.data.questions
        IN  \E i \in 1..Len(Required) :
                /\ r.missing_field = Required[i]
                /\ ~Supplied(ctx, Required[i])
                /\ \A j \in 1..(i - 1) : Supplied(ctx, Required[j])
                /\ IF Required[i] \in DOMAIN qs
                   THEN r.question = qs[Required[i]].question /\ r.options = qs[Required[i]].options
                   ELSE r.question = DefaultQuestion(Required[i]) /\ r.options = None

\* C10 witness: both required fields are missing, both have a question defined, and
\* the first declared one is reported with its own question.
C10_Witness ==
    /\ ret.op = "get_missing_info"
    /\ ret.value # None
    /\ Len(Required) = 2
    /\ \A i \in 1..2 : ~Supplied(ctx, Required[i]) /\ Required[i] \in DOMAIN eng.data.questions
    /\ ret.value[1].missing_field = Required[1]
    /\ ret.value[1].question = eng.data.questions[Required[1]].question


(***************************************************************************)
(* Claims about a conversation (checked under Spec)                        *)
(***************************************************************************)
Served == turn.kind \in {"replied", "done"}

Answered == Served /\ ~turn.raised

FaqInterruption ==
    /\ Served
    /\ turn.request.flow_step # None
    /\ turn.analysis = Some(Analysis(FAQ, TRUE))

\* C2: with a flow marker set and the turn analysed as an interruption with intent
\* FAQ, only the RAG handler is invoked; when it answers, the answer is the RAG answer
\* followed by the resumption hint, the source is RAG, the flow marker returned is the
\* one received, no context update is proposed, and the widget keeps its marker.
C2_FaqInterruptionKeepsFlow ==
    FaqInterruption =>
        /\ turn.calls = {"_handle_rag"}
        /\ ~turn.raised =>
              /\ turn.response.answer = <<"RAG_ANSWER", RESUME_HINT>>
              /\ turn.response.source = "RAG"
              /\ turn.response.flow_step = turn.request.flow_step
              /\ turn.response.context_updates = EmptyDict
              /\ turn.kind = "done" => flowStep = turn.request.flow_step

\* C2 witness: a FAQ interruption of the stop-delivery flow was answered and received,
\* and the widget still holds the STOP_DELIVERY marker.
C2_Witness ==
    /\ FaqInterruption
    /\ turn.kind = "done"
    /\ ~turn.raised
    /\ turn.request.flow_step = Some(STOP_DELIVERY)
    /\ flowStep = Some(STOP_DELIVERY)
    /\ turn.response.answer = <<"RAG_ANSWER", RESUME_HINT>>

HandlerOf(process) ==
    IF process = STOP_DELIVERY THEN "_handle_stop_delivery" ELSE "_handle_urgent_notice"

Processes == {STOP_DELIVERY, URGENT_NOTICE}

\* the turn classifier answered with a classification that is neither ANSWER_FLOW nor
\* INTERRUPTION and named the other structured process
SwitchToOtherProcess ==
    /\ Answered
    /\ turn.request.flow_step # None
    /\ turn.request.flow_step[1] \in Processes
    /\ turn.classifier = "OK"
    /\ turn.analysis # None
    /\ ~turn.analysis[1].is_interruption
    /\ turn.analysis[1].intent \in Processes
    /\ turn.analysis[1].intent # turn.request.flow_step[1]

\* C3: when a structured flow is active and the turn is classified as a switch to the
\* other structured process, the other process's handler is invoked in that turn, the
\* active flow's handler is not, and a question asked in that turn carries the new
\* process's marker.
C3_SwitchStartsOtherProcess ==
    SwitchToOtherProcess =>
        /\ HandlerOf(turn.analysis[1].intent) \in turn.calls
        /\ HandlerOf(turn.request.flow_step[1]) \notin turn.calls
        /\ turn.response.debug_info.kind = "collecting" =>
              turn.response.flow_step = Some(turn.analysis[1].intent)

EngineOf(process) == IF process = STOP_DELIVERY THEN stop_engine ELSE urgent_engine

Reports(missing, f) == missing # None /\ missing[1].missing_field = f

\* C4: once a value for a required field f was extracted in a turn and the widget
\* merged that turn's context_updates, get_missing_info on the merged context does not
\* report f.
C4_ExtractedFieldNotAskedAgain ==
    (turn.kind = "done" /\ ~turn.raised /\ turn.extracted # None) =>
        ~Reports(get_missing_info(EngineOf(turn.extracted[1].process), userContext),
                 turn.extracted[1].field)

\* a value was extracted for the missing field and another required field is missing
ExtractedThenAsked ==
    /\ Answered
    /\ turn.extracted # None
    /\ turn.response.debug_info.kind = "collecting"

\* C5: when a value v is extracted for the missing field f and another required field
\* is then missing, the response keeps the process's marker and its context_updates is
\* exactly {f: v}.
C5_UpdatesNameExtractedField ==
    ExtractedThenAsked =>
        /\ turn.response.flow_step = Some(turn.extracted[1].process)
        /\ turn.response.context_updates =
              [k \in {turn.extracted[1].field} |-> turn.extracted[1].value]

\* the fields the turn set or changed in the request's context
ChangedFields ==
    {k \in DOMAIN turn.context_after :
        k \notin DOMAIN turn.request.context
            \/ turn.request.context[k] # turn.context_after[k]}

\* C6: every response's context_updates holds only fields the turn set or changed.
C6_UpdatesOnlyChangedFields ==
    Answered => DOMAIN turn.response.context_updates \subseteq ChangedFields

\* C7: the widget's flow marker is null, STOP_DELIVERY or URGENT_NOTICE; it is non-null
\* only if the latest flow-handler response was a question of that process for a
\* required field missing from the handler's context; and it is null once a turn that
\* produced a decision or a no-rule-matched answer has been received.
C7_FlowMarkerLifecycle ==
    /\ flowStep \in {None, Some(STOP_DELIVERY), Some(URGENT_NOTICE)}
    /\ flowStep # None =>
          /\ lastFlowResponse.kind = "collecting"
          /\ lastFlowResponse.process = flowStep[1]
          /\ lastFlowResponse.still_missing
    /\ (turn.kind = "done" /\ ~turn.raised
            /\ turn.response.debug_info.kind \in {"decision", "error"}) => flowStep = None

\* C7 witness: a stop-delivery decision has been received after the marker was
\* STOP_DELIVERY, and the widget's marker is null again.
C7_Witness ==
    /\ turn.kind = "done"
    /\ ~turn.raised
    /\ turn.request.flow_step = Some(STOP_DELIVERY)
    /\ turn.response.debug_info.kind = "decision"
    /\ "_handle_stop_delivery" \in turn.calls
    /\ flowStep = None
    /\ lastFlowResponse.kind = "decision"

\* C8: with a flow marker set, _analyze_turn returns a classification whatever the
\* turn classifier and the fallback intent classifier do.
C8_AnalysisNeverRaises ==
    (Served /\ turn.request.flow_step # None) => turn.analysis # None

\* a flow handler ran in the served turn
FlowHandled ==
    Served /\ turn.calls \cap {"_handle_stop_delivery", "_handle_urgent_notice"} # {}

FlowProcess ==
    IF "_handle_stop_delivery" \in turn.calls THEN STOP_DELIVERY ELSE URGENT_NOTICE

SourceOf(process) == IF process = STOP_DELIVERY THEN "AGENT_STOP" ELSE "AGENT_URGENT"

FallbackOf(process) == IF process = STOP_DELIVERY THEN STOP_FALLBACK ELSE URGENT_FALLBACK

\* no required field is missing from the context the handler ends with
CompleteContext ==
    FlowHandled /\ get_missing_info(EngineOf(FlowProcess), turn.context_after) = None

\* C11: when a flow handler has every required field and evaluate returns a decision,
\* the response (once the confirmation text is generated) has a null flow marker, the
\* decision itself as debug_info and the handler's source label, and the widget's
\* marker is null after it.
C11_DecisionClearsFlow ==
    (CompleteContext /\ ~turn.raised
        /\ evaluate(EngineOf(FlowProcess), turn.context_after) # None) =>
        /\ turn.response.flow_step = None
        /\ turn.response.debug_info =
              Debug("decision", "", evaluate(EngineOf(FlowProcess), turn.context_after))
        /\ turn.response.source = SourceOf(FlowProcess)
        /\ turn.kind = "done" => flowStep = None

\* C11 witness: the stop flow, after this turn's extraction, returned the decision of
\* the rule ALTERNATIVE as debug_info with a null marker.
C11_Witness ==
    /\ CompleteContext
    /\ ~turn.raised
    /\ FlowProcess = STOP_DELIVERY
    /\ turn.extracted # None
    /\ turn.response.debug_info = Debug("decision", "", Some(Decision("ALTERNATIVE", 2)))
    /\ turn.response.flow_step = None
    /\ turn.response.source = "AGENT_STOP"

\* C12: when a flow handler has every required field and no rule matches, the turn
\* does not fail, the answer is the handler's fixed fallback message, the flow marker
\* is null, debug_info records that no rule matched, and the turns that follow are
\* sent and analysed with no active flow.
C12_NoRuleEndsFlow ==
    /\ (CompleteContext /\ evaluate(EngineOf(FlowProcess), turn.context_after) = None) =>
          /\ ~turn.raised
          /\ turn.response.answer = <<FallbackOf(FlowProcess)>>
          /\ turn.response.flow_step = None
          /\ turn.response.debug_info = Debug("error", "No rule matched", None)
          /\ turn.response.source = SourceOf(FlowProcess)
          /\ turn.kind = "done" => flowStep = None
    /\ (lastFlowResponse.kind = "error" /\ turn.kind \in {"sent", "replied"}) =>
          /\ turn.request.flow_step = None
          /\ turn.classifier = "NOT_CALLED"

\* C12 witness: the turn after a received no-rule-matched answer of the urgent flow
\* has been served, and it was sent with a null marker.
C12_Witness ==
    /\ lastFlowResponse.kind = "error"
    /\ lastFlowResponse.process = URGENT_NOTICE
    /\ turn.kind = "replied"
    /\ turn.request.flow_step = None

\* context with field f set to v
WithField(context, f, v) ==
    [k \in DOMAIN context \cup {f} |-> IF k = f THEN v ELSE context[k]]

\* the value extracted in the served turn fills the last missing required field
FillsLastField ==
    /\ Served
    /\ turn.extracted # None
    /\ get_missing_info(EngineOf(turn.extracted[1].process),
                        WithField(turn.request.context, turn.extracted[1].field,
                                  turn.extracted[1].value)) = None

\* the decision of the rules on the request's context with the extracted value
DecisionWithExtracted ==
    evaluate(EngineOf(turn.extracted[1].process),
             WithField(turn.request.context, turn.extracted[1].field,
                       turn.extracted[1].value))

\* C13: when the extracted value fills the last missing required field, the rules are
\* evaluated in that turn on the context holding the new value, no question is asked,
\* the matching rule's decision is returned and the flow marker is null.
C13_LastFieldEvaluatesSameTurn ==
    FillsLastField =>
        /\ "evaluate" \in turn.calls
        /\ turn.context_after =
              WithField(turn.request.context, turn.extracted[1].field,
                        turn.extracted[1].value)
        /\ ~turn.raised =>
              /\ turn.response.flow_step = None
              /\ turn.response.debug_info.kind # "collecting"
              /\ DecisionWithExtracted # None =>
                    turn.response.debug_info = Debug("decision", "", DecisionWithExtracted)
              /\ DecisionWithExtracted = None => turn.response.debug_info.kind = "error"

\* C13 witness: 'motivo' was the only missing field of the stop flow, it was
\* extracted, and the decision APPROVED came back in the same turn.
C13_Witness ==
    /\ FillsLastField
    /\ ~turn.raised
    /\ turn.extracted[1].field = "motivo"
    /\ "plan" \in DOMAIN turn.request.context
    /\ turn.response.debug_info = Debug("decision", "", Some(Decision("APPROVED", 1)))
    /\ turn.response.flow_step = None

\* a flow handler asked the extractor for the missing field and got no value
NothingExtracted ==
    /\ Answered
    /\ FlowHandled
    /\ "_extract_field" \in turn.calls
    /\ turn.extracted = None

\* C14: when a flow handler finds a required field missing and no value is extracted,
\* it answers with the question of the first missing field and its own marker,
\* evaluates no rule, proposes no context update and leaves the context as it was.
C14_NoValueReasksWithoutDelta ==
    NothingExtracted =>
        /\ turn.response.answer =
              <<get_missing_info(EngineOf(FlowProcess), turn.request.context)[1].question>>
        /\ turn.response.flow_step = Some(FlowProcess)
        /\ "evaluate" \notin turn.calls
        /\ turn.context_after = turn.request.context
        /\ turn.response.context_updates = EmptyDict

OtherProcess(process) == IF process = STOP_DELIVERY THEN URGENT_NOTICE ELSE STOP_DELIVERY

\* with a flow marker set, the turn was analysed as an interruption
Interruption ==
    /\ Served
    /\ turn.request.flow_step # None
    /\ turn.analysis # None
    /\ turn.analysis[1].is_interruption

\* C16: with a flow marker set and the turn analysed as an interruption whose intent
\* is a structured process, the handler of that process runs in the same turn, the
\* other handler does not, and the marker returned is the one that handler sets: its
\* own process while it asks a question, null otherwise.
C16_InterruptionSwitchesProcess ==
    (Interruption /\ turn.analysis[1].intent \in Processes) =>
        /\ HandlerOf(turn.analysis[1].intent) \in turn.calls
        /\ HandlerOf(OtherProcess(turn.analysis[1].intent)) \notin turn.calls
        /\ ~turn.raised =>
              /\ turn.response.source = SourceOf(turn.analysis[1].intent)
              /\ IF turn.response.debug_info.kind = "collecting"
                 THEN turn.response.flow_step = Some(turn.analysis[1].intent)
                 ELSE turn.response.flow_step = None

\* C16 witness: the stop flow was active, the turn was an interruption with intent
\* URGENT_NOTICE, the urgent handler asked its question and the widget's marker is
\* now URGENT_NOTICE.
C16_Witness ==
    /\ Interruption
    /\ turn.kind = "done"
    /\ turn.request.flow_step = Some(STOP_DELIVERY)
    /\ turn.analysis[1].intent = URGENT_NOTICE
    /\ "_handle_urgent_notice" \in turn.calls
    /\ flowStep = Some(URGENT_NOTICE)

\* C17: an answered interruption whose intent is not a structured process returns the
\* flow marker it received.
C17_OtherInterruptionKeepsFlow ==
    (Interruption /\ ~turn.raised /\ turn.analysis[1].intent \notin Processes) =>
        turn.response.flow_step = turn.request.flow_step

\* with a flow marker set, the turn was analysed as an answer to the flow
AnswersFlow ==
    /\ Served
    /\ turn.request.flow_step # None
    /\ turn.analysis = Some(Analysis(ANSWER_FLOW, FALSE))

\* C15: for every non-null flow marker, a turn analysed as an answer to the flow
\* reaches a handler without an error, and the handler is the stop handler for a
\* marker that names STOP and the urgent handler for a marker that names URGENT.
C15_AnswerFlowDispatchesByMarker ==
    AnswersFlow =>
        /\ turn.calls # {}
        /\ (HasPart(turn.request.flow_step[1], "STOP")
               /\ ~HasPart(turn.request.flow_step[1], "URGENT")) =>
              "_handle_stop_delivery" \in turn.calls
        /\ (HasPart(turn.request.flow_step[1], "URGENT")
               /\ ~HasPart(turn.request.flow_step[1], "STOP")) =>
              "_handle_urgent_notice" \in turn.calls

(***************************************************************************)
(* More claims about the rule engine (checked under SpecEngine)            *)
(***************************************************************************)
\* the matching rule that comes first by priority and then by declaration order
FirstByPriorityThenOrder(i) ==
    /\ i \in Matching
    /\ \A j \in Matching :
          \/ PriorityKey(Declared[j]) < PriorityKey(Declared[i])
          \/ PriorityKey(Declared[j]) = PriorityKey(Declared[i]) /\ i <= j

\* C18: among matching rules of equal priority evaluate returns the decision of the
\* one declared first: it returns the decision of the matching rule that is first by
\* priority and then by declaration order.
C18_TiesKeepDeclarationOrder ==
    ret.op = "evaluate" =>
        \A i \in 1..Len(Declared) :
            FirstByPriorityThenOrder(i) => ret.value = Some(Declared[i].then)

\* C18 witness: two rules with the explicit priority 1 both match and evaluate
\* returned the decision of the first declared.
C18_Witness ==
    /\ ret.op = "evaluate"
    /\ Len(Declared) = 2
    /\ Matching = {1, 2}
    /\ Declared[1].priority = Some(1)
    /\ Declared[2].priority = Some(1)
    /\ ret.value = Some(Declared[1].then)

\* the conditions handed to the _matches call
When == Declared[ret.rule].when

PresentNonNull(context, f) == f \in DOMAIN context /\ context[f] # Null

\* C19: a rule matches only if every field of its condition-set is present and
\* non-null in the context and satisfies its condition; a rule with a condition on a
\* missing or null field does not match.
C19_MatchIsConjunction ==
    ret.op = "_matches" =>
        /\ ret.matched =>
              \A f \in DOMAIN When :
                  PresentNonNull(ctx, f) /\ ConditionHolds(When[f], ctx[f])
        /\ (\E f \in DOMAIN When : ~PresentNonNull(ctx, f)) => ~ret.matched

\* C19 witness: a rule with two conditions, the one on 'scoring' satisfied and the
\* field 'motivo' null, did not match.
C19_Witness ==
    /\ ret.op = "_matches"
    /\ DOMAIN When = {"motivo", "scoring"}
    /\ "scoring" \in DOMAIN ctx
    /\ ConditionHolds(When["scoring"], ctx["scoring"])
    /\ "motivo" \in DOMAIN ctx
    /\ ctx["motivo"] = Null
    /\ ~ret.matched

\* C20: a rule matches only when, for every exact-value condition, the stored value
\* has the type of the condition value (string, number or boolean) and equals it.
C20_ExactMatchNoCoercion ==
    (ret.op = "_matches" /\ ret.matched) =>
        \A f \in DOMAIN When :
            When[f].kind = "exact" =>
                /\ ctx[f].t = When[f].value.t
                /\ ctx[f] = When[f].value

RangeCondition == Declared[1].when["scoring"]
RangeValue == Get(ctx, "scoring")

\* s[a..b] is a non-empty run of digits
AllDigits(s, a, b) == a <= b /\ b <= Len(s) /\ \A k \in a..b : IsDigit(s[k])

\* s[i..j] reads as a signed decimal number: -?digits(.digits)?
SignedDecimal(s, i, j) ==
    \E p \in {i, i + 1} :
        /\ (p = i + 1) <=> (s[i] = "-")
        /\ \E e \in p..j :
              /\ AllDigits(s, p, e)
              /\ e = j \/ (e + 2 <= j /\ s[e + 1] = "." /\ AllDigits(s, e + 2, j))

SignedDecimals(s) ==
    {t \in (1..Len(s)) \X (1..Len(s)) : t[1] <= t[2] /\ SignedDecimal(s, t[1], t[2])}

\* the first signed decimal found in s: leftmost start, then longest
FirstSignedDecimal(s) ==
    CHOOSE t \in SignedDecimals(s) :
        \A u \in SignedDecimals(s) : t[1] < u[1] \/ (t[1] = u[1] /\ t[2] >= u[2])

RECURSIVE DigitsAsInteger(_, _, _)
DigitsAsInteger(s, i, j) ==
    IF j < i THEN 0
    ELSE IF IsDigit(s[j]) THEN 10 * DigitsAsInteger(s, i, j - 1) + DigitVal[s[j]]
    ELSE DigitsAsInteger(s, i, j - 1)

FractionDigits(s, i, j) ==
    IF \E k \in i..j : s[k] = "." THEN j - (CHOOSE k \in i..j : s[k] = ".") ELSE 0

DecimalValue(s, i, j) ==
    [n |-> (IF s[i] = "-" THEN -1 ELSE 1) * DigitsAsInteger(s, i, j),
     d |-> Pow10(FractionDigits(s, i, j))]

\* the number obtained from a native number or from a string
NumberObtained(value) ==
    CASE value.t = "num" -> Some([n |-> value.n, d |-> value.d])
      [] value.t = "str" /\ SignedDecimals(value.s) # {} ->
            Some(DecimalValue(value.s, FirstSignedDecimal(value.s)[1],
                              FirstSignedDecimal(value.s)[2]))
      [] OTHER -> None

\* a string that holds no number
Uncoercible(value) == value.t = "str" /\ SignedDecimals(value.s) = {}

WithinBounds(x, condition) ==
    /\ condition.min # None => x.n * condition.min[1].d >= condition.min[1].n * x.d
    /\ condition.max # None => x.n * condition.max[1].d <= condition.max[1].n * x.d

\* C21: whichever of min and max a range condition declares (both, one or neither),
\* a string fact that holds no number does not satisfy it: _matches returns False
\* for the rule and evaluate returns no decision.
C21_UncoercibleNeverMatches ==
    (ret.op \in {"_matches", "evaluate"} /\ Uncoercible(RangeValue)) =>
        /\ ret.op = "_matches" => ~ret.matched
        /\ ret.op = "evaluate" => ret.value = None

C22_WitnessNoNumber ==
    /\ ret.op = "_matches"
    /\ RangeValue = Str(<<"b">>)
    /\ RangeCondition = Range(Some([n |-> 2, d |-> 1]), None)
    /\ ~ret.matched

(***************************************************************************)
(* Claims about the effects of a turn (checked under Spec)                 *)
(***************************************************************************)
\* C24: after any served turn, the context object the caller passed to process_request
\* holds exactly the fields and values it held before the call.
C24_CallerContextOnlyRead ==
    Served => turn.context_after = turn.request.context

(***************************************************************************)
(* Claims about turn analysis and dispatch (checked under Spec)            *)
(***************************************************************************)
\* the category named by the upper-cased reply of the intent classifier
IntentNamed(marks) ==
    IF "STOP" \in marks THEN STOP_DELIVERY
    ELSE IF "URGENT" \in marks THEN URGENT_NOTICE
    ELSE IF "FAQ" \in marks THEN FAQ
    ELSE CHAT

\* C25: with no flow marker, whatever text the intent classifier returns, the analysis
\* reports no interruption and an intent among STOP_DELIVERY, URGENT_NOTICE, FAQ and
\* CHAT; a text that names no category gives CHAT.
C25_NoFlowAnalysis ==
    (Served /\ turn.request.flow_step = None /\ turn.intent_reply # None) =>
        /\ turn.analysis # None
        /\ ~turn.analysis[1].is_interruption
        /\ turn.analysis[1].intent \in {STOP_DELIVERY, URGENT_NOTICE, FAQ, CHAT}
        /\ turn.analysis[1].intent = IntentNamed(turn.intent_reply[1])

\* C25 witness: with no marker, a reply naming no category was analysed as CHAT.
C25_Witness ==
    /\ Served
    /\ turn.request.flow_step = None
    /\ turn.intent_reply = Some({})
    /\ turn.analysis = Some(Analysis(CHAT, FALSE))

ClassifierFailed ==
    /\ Served
    /\ turn.request.flow_step # None
    /\ turn.classifier \in {"CALL_ERROR", "NON_JSON", "MISSING_KEY"}

\* C26: when the in-flow classifier call fails or its output cannot be read: a message
\* holding a fallback keyword is analysed as an answer to the flow, no interruption,
\* without consulting the intent classifier; otherwise the intent classifier is
\* consulted and, when it replies, the analysis carries its intent and is an
\* interruption unless that intent is CHAT.
C26_ClassifierFailureFallback ==
    ClassifierFailed =>
        /\ turn.keyword =>
              /\ turn.analysis = Some(Analysis(ANSWER_FLOW, FALSE))
              /\ turn.fallback = "NOT_CALLED"
        /\ ~turn.keyword =>
              /\ turn.fallback # "NOT_CALLED"
              /\ turn.intent_reply # None =>
                    turn.analysis =
                        Some(Analysis(IntentNamed(turn.intent_reply[1]),
                                      IntentNamed(turn.intent_reply[1]) # CHAT))

\* C26 witness: the classifier's output was no JSON, the message held no keyword and
\* the intent classifier named no category: the turn is a CHAT turn, no interruption.
C26_Witness ==
    /\ ClassifierFailed
    /\ turn.classifier = "NON_JSON"
    /\ ~turn.keyword
    /\ turn.intent_reply = Some({})
    /\ turn.analysis = Some(Analysis(CHAT, FALSE))

\* C26 second case: with a keyword in the message the turn answers the flow.
C26_WitnessKeyword ==
    /\ ClassifierFailed
    /\ turn.keyword
    /\ turn.analysis = Some(Analysis(ANSWER_FLOW, FALSE))

Handlers == {"_handle_stop_delivery", "_handle_urgent_notice", "_handle_rag", "_simple_chat"}

HandlerFor(intent) ==
    CASE intent = STOP_DELIVERY -> "_handle_stop_delivery"
      [] intent = URGENT_NOTICE -> "_handle_urgent_notice"
      [] intent = FAQ -> "_handle_rag"
      [] OTHER -> "_simple_chat"

NoFlowTurn ==
    /\ Served
    /\ turn.request.flow_step = None
    /\ turn.analysis # None

\* C27: with no flow marker, an analysed turn runs exactly one handler, the one of its
\* intent: STOP_DELIVERY the stop handler, URGENT_NOTICE the urgent handler, FAQ the RAG
\* handler (source RAG, null marker), any other intent the chat handler (source CHAT,
\* null marker, empty context_updates).
C27_NoFlowDispatch ==
    NoFlowTurn =>
        /\ turn.calls \cap Handlers = {HandlerFor(turn.analysis[1].intent)}
        /\ (~turn.raised /\ turn.analysis[1].intent = FAQ) =>
              /\ turn.response.source = "RAG"
              /\ turn.response.flow_step = None
        /\ (~turn.raised /\ turn.analysis[1].intent \notin {STOP_DELIVERY, URGENT_NOTICE, FAQ}) =>
              /\ turn.response.source = "CHAT"
              /\ turn.response.flow_step = None
              /\ turn.response.context_updates = EmptyDict

\* C27 witness: with no marker and a non-empty context, an URGENT_NOTICE turn ran the
\* urgent handler and no other.
C27_Witness ==
    /\ NoFlowTurn
    /\ turn.request.context # EmptyDict
    /\ turn.analysis[1].intent = URGENT_NOTICE
    /\ turn.calls \cap Handlers = {"_handle_urgent_notice"}

\* C27 second case: a CHAT turn was answered by the chat handler.
C27_WitnessChat ==
    /\ NoFlowTurn
    /\ ~turn.raised
    /\ turn.analysis[1].intent = CHAT
    /\ turn.calls \cap Handlers = {"_simple_chat"}
    /\ turn.response.source = "CHAT"

EvaluateInvoked == Served /\ "evaluate" \in turn.calls

RequiredOf(process) == EngineOf(process).data.required_fields

\* C28: a flow handler calls evaluate only on a context for which get_missing_info
\* returns nothing, that is with every required field of the process present, non-null
\* and non-empty; a response that carries a decision comes from such a call.
C28_EvaluateOnlyWhenComplete ==
    /\ EvaluateInvoked =>
          /\ FlowHandled
          /\ get_missing_info(EngineOf(FlowProcess), turn.context_after) = None
          /\ \A i \in 1..Len(RequiredOf(FlowProcess)) :
                Supplied(turn.context_after, RequiredOf(FlowProcess)[i])
    /\ (Served /\ turn.response.debug_info.kind = "decision") => EvaluateInvoked

\* C28 witness: the urgent handler evaluated in the turn in which the last missing
\* field was extracted, and answered with a decision.
C28_Witness ==
    /\ EvaluateInvoked
    /\ FlowProcess = URGENT_NOTICE
    /\ turn.extracted # None
    /\ ~Supplied(turn.request.context, turn.extracted[1].field)
    /\ turn.response.debug_info.kind = "decision"

\* C29: when a collaborator call fails during a turn, the widget's fact context and
\* flow marker after applying the failure response equal those it sent with the turn.
C29_FailureLeavesCallerState ==
    (turn.kind = "done" /\ turn.raised) =>
        /\ userContext = turn.request.context
        /\ flowStep = turn.request.flow_step

(***************************************************************************)
(* Claims about two sessions (checked under SpecSessions)                  *)
(***************************************************************************)
RuleSetsAsLoaded ==
    /\ stop_engine = RuleEngine(StopRules)
    /\ urgent_engine = RuleEngine(UrgentRules)

\* the response of a served request is the one its own request and the collaborators'
\* answers of its own turn give on the rule sets as loaded
AnsweredAlone(t) ==
    t.kind \in {"replied", "done"} =>
        t.response =
            chat(t.drawn.message, t.request.context, t.request.flow_step, t.drawn.o).response

C31_ContextNeverCleared ==
    [][\A f \in DOMAIN userContext :
          /\ f \in DOMAIN userContext'
          /\ Supplied(userContext, f) => userContext'[f] = userContext[f]]_vars

\* C31 witness: a merge filled a field and the context already held a non-empty one.
C31_Witness ==
    /\ turn.kind = "done"
    /\ turn.response.context_updates # EmptyDict
    /\ userContext # turn.request.context
    /\ \E f \in DOMAIN turn.request.context : Supplied(turn.request.context, f)

(***************************************************************************)
(* Claims about the progress of a flow (checked under SpecFlow)            *)
(***************************************************************************)
\* how many required fields of the process are missing from the context
MissingCount(process, context) ==
    Cardinality({i \in 1..Len(RequiredOf(process)) :
                    ~Supplied(context, RequiredOf(process)[i])})

\* the turn was applied and the flow is over: the widget holds a null marker
FlowDone == turn.kind = "done" /\ flowStep = None

\* C32: while every turn is handled by the same flow handler with a value extracted
\* and the widget merges the updates, each applied turn either ends the flow (a
\* decision or the no-rule answer, null marker) or leaves fewer required fields missing
\* from the widget's context than were missing from the request's, and a turn whose
\* request has at most one field missing ends it: a flow that starts with n missing
\* fields is over within n turns (within one turn when none is missing).
C32_FlowReachesDone ==
    turn.kind = "done" =>
        \/ flowStep = None
        \/ /\ MissingCount(FlowProcess, turn.request.context) > 1
           /\ MissingCount(FlowProcess, userContext)
                 < MissingCount(FlowProcess, turn.request.context)

\* C32 witness: a stop-delivery turn of an active flow, with one required field
\* missing from its request, ended the flow with a decision.
C32_Witness ==
    /\ FlowDone
    /\ turn.request.flow_step = Some(STOP_DELIVERY)
    /\ MissingCount(STOP_DELIVERY, turn.request.context) = 1
    /\ lastFlowResponse.kind = "decision"

\* C32 second case: a turn with two fields missing left the flow open with one missing.
C32_WitnessCollecting ==
    /\ turn.kind = "done"
    /\ flowStep # None
    /\ MissingCount(FlowProcess, turn.request.context) = 2
    /\ MissingCount(FlowProcess, userContext) = 1

(***************************************************************************)
(* Claims about loading the rule sets (checked under SpecLoad)             *)
(***************************************************************************)
\* a rule-set file that is there and holds a rule set: rules and required fields
WellFormed(file) == file.kind = "OBJECT" /\ {"rules", "required_fields"} \subseteq file.keys

\* C33: an AgentSystem is constructed only from two rule-set files that are present and
\* well formed, and while a file is missing or malformed every request is answered
\* with the generic failure response.
C33_BadRuleSetIsFatal ==
    /\ stop_engine # None => WellFormed(disk.stop) /\ WellFormed(disk.urgent)
    /\ (turn.kind = "replied" /\ ~(WellFormed(disk.stop) /\ WellFormed(disk.urgent))) =>
          /\ turn.raised
          /\ turn.response = ErrorEnvelope

(***************************************************************************)
(* Claims about the synchronization pipeline (checked under SpecSync)      *)
(***************************************************************************)
\* SyncPipeline.run has returned and the sources have not changed since
AfterRun == sync.pc = "idle" /\ sync.ran

\* no call to Drive, Salesforce or the index failed during the run
CollaboratorsWorked == ~sync.failed

\* the index and the sync state hold the document's current version
UpToDate(fid) ==
    /\ sync.index[fid] = sync.remote[fid]
    /\ sync.state[fid] = sync.remote[fid]

\* C34: after a run in which every collaborator answered, every Drive file and Salesforce article that is new or modified
\* since the previous run has vectors of its current version in the index and its
\* current modified time in the sync state, and every Drive file removed from the
\* source has neither vectors nor a state entry.
C34_RunBringsIndexUpToDate ==
    (AfterRun /\ CollaboratorsWorked) =>
        \A fid \in sync.checking :
            (sync.remote[fid] # 0 \/ fid \in DriveIds) => UpToDate(fid)

\* C38: after any run of sync_google_drive or sync_salesforce_knowledge, failed ones
\* included, every id recorded in the sync state with modified time T has vectors of
\* that version in the index.
C38_StateEntryHasVectors ==
    (sync.pc = "list_articles" \/ AfterRun) =>
        \A fid \in DocIds : sync.state[fid] # 0 => sync.index[fid] = sync.state[fid]

(***************************************************************************)
(* Claims about Processor.chunk_text (checked under SpecChunk)             *)
(***************************************************************************)
Chars(chunk) == {chunk[i] : i \in 1..Len(chunk)}

Covered(chunks) == UNION {Chars(chunks[i]) : i \in 1..Len(chunks)}

\* consecutive chunks share exactly chunk_overlap characters, the last ones of the
\* earlier chunk
OverlapBy(chunks, chunk_overlap) ==
    \A i \in 1..(Len(chunks) - 1) :
        /\ Cardinality(Chars(chunks[i]) \cap Chars(chunks[i + 1])) = chunk_overlap
        /\ Head(chunks[i + 1]) = chunks[i][Len(chunks[i])] - chunk_overlap + 1

ChunksCoverText ==
    chunker.pc = "done" =>
        IF Len(chunker.text) = 0
        THEN chunker.chunks = <<>>
        ELSE /\ Covered(chunker.chunks) = Chars(chunker.text)
             /\ Head(chunker.chunks[1]) = 1
             /\ chunker.chunks[Len(chunker.chunks)][Len(chunker.chunks[Len(chunker.chunks)])]
                   = Len(chunker.text)
             /\ OverlapBy(chunker.chunks, chunker.chunk_overlap)

\* C39: chunk_text terminates for every text and every chunk_size > chunk_overlap >= 0;
\* the chunks it returns cover every character of the text, consecutive chunks overlap
\* by chunk_overlap characters and the last chunk ends at the end of the text; an
\* empty text yields no chunks.
C39_ChunkTextTerminatesAndCovers ==
    /\ []ChunksCoverText
    /\ (chunker.pc = "loop") ~> (chunker.pc = "done")

\* a text cut into three chunks that overlap
C39_Witness ==
    /\ chunker.pc = "done"
    /\ Len(chunker.chunks) >= 3
    /\ chunker.chunk_overlap >= 1
    /\ Len(chunker.chunks[Len(chunker.chunks)]) < chunker.chunk_size

\* an empty text
C39_WitnessEmpty ==
    /\ chunker.pc = "done"
    /\ Len(chunker.text) = 0

(***************************************************************************)
(* Claims about the product keyword fallback (checked under Spec)          *)
(***************************************************************************)
\* a flow handler asked the extraction service for a field and got a reply
ExtractionReplied ==
    /\ Served
    /\ "_extract_field" \in turn.calls
    /\ turn.drawn.o.extract_llm.kind # "ERROR"

\* the extraction service's reply holds a value
ExtractionYielded == turn.drawn.o.extract_llm.kind = "TEXT"

\* the required field get_missing_info reports for the request's context
AskedField(process) ==
    RequiredOf(process)[CHOOSE i \in 1..Len(RequiredOf(process)) :
        /\ ~Supplied(turn.request.context, RequiredOf(process)[i])
        /\ \A j \in 1..(i - 1) : Supplied(turn.request.context, RequiredOf(process)[j])]

KeywordFallbackApplied == "producto_inference" \in turn.calls

\* the value the handler put into the context, if any
Merged(value) == turn.extracted = Some(Extraction(FlowProcess, AskedField(FlowProcess), value))

\* C35: the keyword fallback for the product is applied only in the urgent-notice flow,
\* when the missing field is 'producto' and extraction yielded nothing; a message
\* mentioning 'agua' yields 'agua', otherwise one mentioning 'cafe' yields 'cafe'; an
\* extracted value is never overridden.
C35_ProductoKeywordFallback ==
    ExtractionReplied =>
        /\ KeywordFallbackApplied <=>
              /\ FlowProcess = URGENT_NOTICE
              /\ AskedField(URGENT_NOTICE) = "producto"
              /\ ~ExtractionYielded
        /\ KeywordFallbackApplied =>
              IF turn.drawn.message.agua THEN Merged(Str(AGUA))
              ELSE IF turn.drawn.message.cafe THEN Merged(Str(CAFE))
              ELSE turn.extracted = None
        /\ ~KeywordFallbackApplied =>
              IF ExtractionYielded THEN Merged(Str(turn.drawn.o.extract_llm.s))
              ELSE turn.extracted = None

\* a message that mentions both products, after an extraction that found nothing
C35_Witness ==
    /\ ExtractionReplied
    /\ KeywordFallbackApplied
    /\ turn.drawn.message.agua
    /\ turn.drawn.message.cafe
    /\ turn.extracted # None
    /\ turn.extracted[1].value = Str(AGUA)

\* the second urgent-notice field is asked and extraction finds nothing: no fallback
C35_WitnessOtherField ==
    /\ ExtractionReplied
    /\ FlowProcess = URGENT_NOTICE
    /\ AskedField(URGENT_NOTICE) # "producto"
    /\ ~ExtractionYielded
    /\ ~KeywordFallbackApplied

(***************************************************************************)
(* Claims about turns inside a flow (checked under Spec)                   *)
(***************************************************************************)
\* a turn posted with the marker of a flow and analysed as something other than an
\* interruption
InFlowTurn ==
    /\ Served
    /\ turn.request.flow_step \in {Some(STOP_DELIVERY), Some(URGENT_NOTICE)}
    /\ turn.analysis # None
    /\ ~turn.analysis[1].is_interruption

\* C36: while the flow marker is STOP_DELIVERY or URGENT_NOTICE, a turn that is not
\* analysed as an interruption is dispatched to the stop-delivery or the urgent-notice
\* handler, never to the RAG or the chat handler, whatever intent was detected.
C36_FlowTurnStaysWithFlowHandlers ==
    InFlowTurn =>
        turn.calls \cap Handlers \in {{"_handle_stop_delivery"}, {"_handle_urgent_notice"}}

\* a switch inside a flow whose detected intent is FAQ, handled by the flow's handler
C36_Witness ==
    /\ InFlowTurn
    /\ turn.analysis[1].intent = FAQ
    /\ "_handle_stop_delivery" \in turn.calls

\* a switch inside a flow whose detected intent is CHAT
C36_WitnessChat ==
    /\ InFlowTurn
    /\ turn.analysis[1].intent \notin {STOP_DELIVERY, URGENT_NOTICE, FAQ}
    /\ "_handle_urgent_notice" \in turn.calls

(***************************************************************************)
(* Claims about false and zero as field values (checked under SpecEngine)  *)
(***************************************************************************)
\* the context holds boolean false or the number 0 under the field
FalseOrZero(context, field) ==
    /\ field \in DOMAIN context
    /\ context[field].t \in {"bool", "num"}
    /\ context[field].n = 0

\* the context has no value, null or the empty string under the field
AbsentNullOrEmpty(context, field) ==
    \/ field \notin DOMAIN context
    \/ context[field].t = "null"
    \/ context[field].t = "str" /\ context[field].s = <<>>

\* C37: a required field whose value is boolean false or the number 0 counts as
\* present: get_missing_info reports a field only when it is absent, null or the empty
\* string, and reports nothing when every required field holds false or zero.
C37_FalseAndZeroCountAsPresent ==
    ret.op = "get_missing_info" =>
        /\ ret.value # None =>
              /\ ~FalseOrZero(ctx, ret.value[1].missing_field)
              /\ AbsentNullOrEmpty(ctx, ret.value[1].missing_field)
        /\ (\A i \in 1..Len(Required) : FalseOrZero(ctx, Required[i])) => ret.value = None

\* false or zero under the first required field, and the second one reported missing
C37_Witness ==
    /\ ret.op = "get_missing_info"
    /\ Len(Required) = 2
    /\ FalseOrZero(ctx, Required[1])
    /\ ret.value # None
    /\ ret.value[1].missing_field = Required[2]

\* a context holding only false and zero, complete
C37_WitnessComplete ==
    /\ ret.op = "get_missing_info"
    /\ Len(Required) = 2
    /\ FalseOrZero(ctx, Required[1])
    /\ FalseOrZero(ctx, Required[2])
    /\ ctx[Required[1]] # ctx[Required[2]]
    /\ ret.value = None

====
